---- MODULE Spec2Model ----
(***************************************************************************)
(* A model of prez's profile / media type negotiation                      *)
(* (prez/services/connegp_service.py, NegotiatedPMTs), of its SPARQL       *)
(* query generators (prez/services/sparql_new.py), of the federated search *)
(* and SPARQL routes (prez/app.py) and of the search query                 *)
(* (prez/sparql/search_query.py).                                          *)
(*                                                                         *)
(* Conventions.  Python's None is the record Nothing, a present value x is *)
(* Some(x).  Weights are held in tenths (1.0 is 10).  A text is a string;  *)
(* query text is held as the sequence of its clauses.                      *)
(***************************************************************************)
EXTENDS Integers, Sequences, FiniteSets, TLC

VARIABLES
    request,              \* headers, params, classes, listing of one NegotiatedPMTs
    pc,                   \* where setup() stands
    idx,                  \* index of the preference entry _tupilize works on
    acc,                  \* the list comprehension's tuples so far
    requested_profiles,   \* self.requested_profiles
    requested_mediatypes, \* self.requested_mediatypes
    query,                \* the text _compose_select_query returned
    response,             \* repo_response[1][0][1], the rows of the answer
    available,            \* self.available
    selected,             \* self.selected
    error,                \* the exception setup() ended with, "" when none
    calls,                \* every call awaited on a collaborator, in order
    listing_args,         \* the arguments of the last generate_listing_construct
    listing_query,        \* the query it returned
    item_args,            \* the arguments of the last generate_item_construct
    item_query,           \* the query it returned
    item_predicates,      \* what get_profile_predicates returned to it
    listing_answer,       \* the repository's answer to the listing query
    headers,              \* what generate_response_headers returned
    first_run,            \* what an earlier negotiation of the same request gave
    search_args,          \* app.search: its search and endpoints parameters
    search_pc,            \* where app.search stands
    endpoint_details,     \* app.search: endpoint_details
    fed_s,                \* app.search: s, what federated_search returned
    retries,              \* app.search: retries
    results,              \* app.search: results
    template_context,     \* app.search: the context search.html is rendered with
    search_error,         \* the exception app.search ended with
    attempts,             \* every SkosSearch.federated_search call, in order
    sparql_args,          \* the request and configuration of one /sparql call
    sparql_response,      \* what sparql_get or sparql_post ended with
    sq_args,              \* the fields of one SearchQuery, and the store it is run on
    sq_query,             \* the query SearchQuery.create_construct_query built
    sq_grouped,           \* the store's solutions of the inner sub-select
    sq_rows,              \* the store's solutions of the outer sub-select
    inj_args,             \* a text of the request and the place it is written to
    inj_query,            \* the query text emitted with it
    update_args,          \* update_profile: its parameters, and the state before it
    update_pc,            \* where update_profile stands
    profiles_graph_cache, \* the triples of prez.cache.profiles_graph_cache
    pyoxi_store,          \* system_repo.pyoxi_store: the profile's named graph
    old_profile,          \* update_profile: the triples of old_profile still to remove
    new_profile_g,        \* update_profile: the triples of new_profile_g still to add
    update_response,      \* the status update_profile answered with, 0 while it runs
    nodeshape_given,      \* the NodeShape as it was handed to the first object_function call
    profile_nodeshape,    \* the NodeShape object_function is called with
    object_calls,         \* every object_function call: its pmts and the query it compiled
    dispatch_args,        \* app.object: ENABLED_PREZS and the types get_object answered with
    dispatch_idx,         \* app.object: the index of object_type in object_types, 0 before the loop
    dispatch_response     \* what app.object ended with

negvars == <<request, pc, idx, acc, requested_profiles, requested_mediatypes,
             query, response, available, selected, error, calls>>
genvars == <<listing_args, listing_query, item_args, item_query, item_predicates,
             listing_answer>>
fedvars == <<search_args, search_pc, endpoint_details, fed_s, retries, results,
             template_context, search_error, attempts, sparql_args,
             sparql_response>>
hdrvars == <<headers, first_run>>
sqvars == <<sq_args, sq_query, sq_grouped, sq_rows>>
injvars == <<inj_args, inj_query>>
updvars == <<update_args, update_pc, profiles_graph_cache, pyoxi_store, old_profile,
             new_profile_g, update_response>>
objvars == <<nodeshape_given, profile_nodeshape, object_calls>>
dispvars == <<dispatch_args, dispatch_idx, dispatch_response>>
notneg == <<genvars, hdrvars, fedvars, sqvars, injvars, updvars, objvars, dispvars>>
notgen == <<negvars, hdrvars, fedvars, sqvars, injvars, updvars, objvars, dispvars>>
notfed == <<negvars, hdrvars, genvars, sqvars, injvars, updvars, objvars, dispvars>>
notsq == <<negvars, hdrvars, genvars, fedvars, injvars, updvars, objvars, dispvars>>
notinj == <<negvars, hdrvars, genvars, fedvars, sqvars, updvars, objvars, dispvars>>
notupd == <<negvars, genvars, fedvars, hdrvars, sqvars, injvars, objvars, dispvars>>
notobj == <<negvars, genvars, fedvars, hdrvars, sqvars, injvars, updvars, dispvars>>
notdisp == <<negvars, genvars, fedvars, hdrvars, sqvars, injvars, updvars, objvars>>
vars == <<request, pc, idx, acc, requested_profiles, requested_mediatypes,
          query, response, available, selected, error, calls,
          listing_args, listing_query, item_args, item_query, item_predicates,
          listing_answer,
          headers, first_run,
          search_args, search_pc, endpoint_details, fed_s, retries, results,
          template_context, search_error, attempts, sparql_args,
          sparql_response, sq_args, sq_query, sq_grouped, sq_rows,
          inj_args, inj_query,
          update_args, update_pc, profiles_graph_cache, pyoxi_store, old_profile,
          new_profile_g, update_response,
          nodeshape_given, profile_nodeshape, object_calls,
          dispatch_args, dispatch_idx, dispatch_response>>

(***************************************************************************)
(* Bounds of the model.                                                    *)
(***************************************************************************)
MaxPrefs == 2      \* preference entries in one request, all lists together
MaxPage == 3       \* the largest page asked for
MaxPerPage == 2    \* the largest small per_page asked for (beside the default)
MaxDepth == 3      \* the largest bnode_depth a profile sets

Nothing == [some |-> FALSE, v |-> <<>>]
Some(x) == [some |-> TRUE, v |-> x]

(***************************************************************************)
(* The data of the collaborators: the profile metadata of the system       *)
(* repository and the CURIE registry.                                      *)
(***************************************************************************)
ProfileUris == {"P1", "P2"}
Bracket(u) == "<" \o u \o ">"

\* dcterms:identifier tokens of the profiles in the system repository
TokenTable == [t \in {"tokP2"} |-> "P2"]

\* the CURIE registry
CurieTable == [c \in {"ex:P1"} |-> "P1"]

Formats == {"text/turtle", "application/ld+json"}
\* ?profile altr-ext:constrainsClass ?class ; altr-ext:hasResourceFormat ?format
Combination(p, c, f) == [profile |-> p, class |-> c, format |-> f]
Universe ==
    {Combination("P1", "Base", "text/turtle"),
     Combination("P2", "Child", "application/ld+json"),
     Combination("P2", "Base", "application/ld+json"),
     Combination("P2", "Base", "text/turtle")}

Title(p) == IF p = "P1" THEN "Profile one" ELSE "Profile two"
ProfileTypes(p) == IF p = "P1" THEN {"ListingProfile", "ObjectProfile"}
                   ELSE {"ObjectProfile"}
\* ?shape sh:targetClass ?class ; altr-ext:hasDefaultProfile ?profile
HasDefaultProfile(c, p) == <<c, p>> \in {<<"Child", "P1">>, <<"Base", "P2">>}
\* ?profile altr-ext:hasDefaultResourceFormat ?format
HasDefaultResourceFormat(p, f) ==
    <<p, f>> \in {<<"P1", "text/turtle">>, <<"P2", "application/ld+json">>}
\* the classes ?mid with ?class rdfs:subClassOf* ?mid . ?mid rdfs:subClassOf* ?base
SubClassChain(c) == IF c = "Child" THEN {"Child", "Base"} ELSE {"Base"}

(***************************************************************************)
(* Preference entries.  An entry of a comma separated preference list is   *)
(* held as the parts string.split("q=") gives, the first one stripped of   *)
(* " ;": <<name>> when no weight is given, <<name, text>> otherwise.       *)
(***************************************************************************)
ProfileNames == {"<P1>", "tokP2", "ex:P1", "zz"}
MediatypeNames == Formats
QTexts == {"0.5", "abc"}

EntriesOf(names) ==
    {<<n>> : n \in names} \cup {<<n, q>> : n \in names, q \in QTexts}

RECURSIVE ListsOf(_, _)
ListsOf(S, n) ==
    IF n = 0 THEN {<<>>}
    ELSE LET shorter == ListsOf(S, n - 1)
         IN  shorter \cup {Append(l, e) : l \in {x \in shorter : Len(x) = n - 1}, e \in S}

\* float(text): the texts Python parses, in tenths
FloatTable == [s \in {"0.5", "1.0"} |-> IF s = "0.5" THEN 5 ELSE 10]
ParsesAsFloat(s) == s \in DOMAIN FloatTable
\* str(float)
StrOfFloat(n) == IF n = 5 THEN "0.5" ELSE "1.0"
\* the order of Python's (and SPARQL's) string comparison on the texts in use
StrRank(s) == CASE s = "" -> 0 [] s = "0.5" -> 1 [] s = "1.0" -> 2 [] OTHER -> 3

default_weighting == 10

NumWeight(n) == [isnum |-> TRUE, num |-> n, str |-> ""]
StrWeight(s) == [isnum |-> FALSE, num |-> 0, str |-> s]
Tuple(name, w) == [name |-> name, w |-> w]

\* re.search(r"^<.*>$", text)
LooksLikeUri(text) == \E u \in ProfileUris \cup {"P9"} : text = Bracket(u)

\* _tupilize, lines 156-165: the weight of an entry
TupilizeWeight(parts) ==
    IF Len(parts) = 1 THEN NumWeight(default_weighting)
    ELSE IF ParsesAsFloat(parts[2]) THEN NumWeight(FloatTable[parts[2]])
    ELSE StrWeight(parts[2])   \* the ValueError is logged, parts[1] is kept

\* _resolve_token: the profile whose dcterms:identifier is the token
TokenResolves(token) == token \in DOMAIN TokenTable
ResolveToken(token) == Bracket(TokenTable[token])

\* get_uri_for_curie_id
CurieResolves(curie) == curie \in DOMAIN CurieTable
ResolveCurie(curie) == Bracket(CurieTable[curie])

\* _tupilize for an entry that needs no lookup (a media type, a bracketed profile)
Tupilize(parts) == Tuple(parts[1], TupilizeWeight(parts))

\* sorted()'s comparison of two keys x[1]; it raises TypeError on str with float
Comparable(a, b) == a.w.isnum = b.w.isnum
SortKey(t) == IF t.w.isnum THEN t.w.num ELSE StrRank(t.w.str)

\* one step of a stable descending sort: x, the last of its list, goes after
\* every element whose key is not smaller
InsertDesc(s, x) ==
    LET k == Cardinality({i \in 1..Len(s) : SortKey(s[i]) >= SortKey(x)})
    IN  SubSeq(s, 1, k) \o <<x>> \o SubSeq(s, k + 1, Len(s))

RECURSIVE SortedDesc(_)
SortedDesc(types) ==
    IF types = <<>> THEN <<>>
    ELSE InsertDesc(SortedDesc(SubSeq(types, 1, Len(types) - 1)), types[Len(types)])

\* _prioritize raises TypeError when sorted() compares a str with a float
PrioritizeRaises(types) ==
    \E i, j \in 1..Len(types) : ~Comparable(types[i], types[j])
\* a sort that is not stable: on a later run equal weights come out in
\* another order
Prioritize_unstable(types) ==
    IF first_run.some
    THEN SortedDesc([i \in 1..Len(types) |-> types[Len(types) + 1 - i]])
    ELSE SortedDesc(types)

\* _prioritize: sorted(types, key=lambda x: x[1], reverse=True)
Prioritize(types) == SortedDesc(types)

RECURSIVE MapTupilize(_)
MapTupilize(raw) ==
    IF raw = <<>> THEN <<>>
    ELSE <<Tupilize(Head(raw))>> \o MapTupilize(Tail(raw))

\* self.params.get("_profile", "") or else self.headers.get("accept-profile", "")
RawProfiles(req) ==
    IF req.params.profile # <<>> THEN req.params.profile ELSE req.headers.accept_profile
\* the header taken before the query parameter
RawMediatypes_header_first(req) ==
    IF req.headers.accept # <<>> THEN req.headers.accept ELSE req.params.mediatype

\* self.params.get("_mediatype", "") or else self.headers.get("accept", "")
RawMediatypes(req) ==
    IF req.params.mediatype # <<>> THEN req.params.mediatype ELSE req.headers.accept

(***************************************************************************)
(* The available-combinations query: what _compose_select_query writes,    *)
(* and what the SPARQL text means when the repository evaluates it.        *)
(***************************************************************************)
Perms(S) ==
    {f \in [1..Cardinality(S) -> S] : \A i, j \in 1..Cardinality(S) : f[i] = f[j] => i = j}

\* str(tup[1])
StrOfWeight(w) == IF w.isnum THEN StrOfFloat(w.num) ELSE w.str

\* the set comprehension of line 300: one IF( per distinct (media type, weight)
IfStatements(mediatypes) ==
    {[format |-> mediatypes[i].name, value |-> StrOfWeight(mediatypes[i].w)] :
        i \in 1..Len(mediatypes)}

\* the ORDER BY with ?def_profile put before ?distance
OrderBy_default_before_distance ==
    <<"req_profile", "def_profile", "distance", "req_format", "def_format">>

\* line 279
OrderBy == <<"req_profile", "distance", "def_profile", "req_format", "def_format">>

\* prez.ListingProfile if self.listing else prez.ObjectProfile
ProfileClass(req) == IF req.listing THEN "ListingProfile" ELSE "ObjectProfile"

\* lines 240-243; "" stands for None (both are falsy on line 272)
RequestedProfile(profiles) ==
    IF profiles.some /\ profiles.v # <<>> THEN profiles.v[1].name ELSE ""

\* _compose_select_query with _generate_mediatype_if_statements; the IF( lines
\* are joined in the iteration order of a set, which is any order
ComposeSelectQuery(req, profiles, mediatypes, ifs) ==
    [profile_class |-> ProfileClass(req),
     classes |-> req.classes,
     requested_profile |-> RequestedProfile(profiles),
     ifs |-> ifs,
     closing |-> IF mediatypes.some THEN Len(mediatypes.v) ELSE 0,
     order_by |-> OrderBy]

IfOrders(mediatypes) ==
    IF mediatypes.some /\ mediatypes.v # <<>> THEN Perms(IfStatements(mediatypes.v))
    ELSE {<<>>}

\* the BIND( IF( ... ) AS ?req_format) is balanced
WellFormed(q) == q.closing = Len(q.ifs)

\* BIND(?profile=<requested> as ?req_profile), absent without a requested profile
ReqProfile(q, profile) ==
    IF q.requested_profile = "" THEN "unbound"
    ELSE IF Bracket(profile) = q.requested_profile THEN "true" ELSE "false"

\* the nested IFs: the value of the first IF whose format matches, else ""
RECURSIVE IfValue(_, _)
IfValue(ifs, format) ==
    IF ifs = <<>> THEN ""
    ELSE IF Head(ifs).format = format THEN Head(ifs).value
    ELSE IfValue(Tail(ifs), format)

ReqFormat(q, format) ==
    IF q.ifs = <<>> THEN [bound |-> FALSE, v |-> ""]
    ELSE [bound |-> TRUE, v |-> IfValue(q.ifs, format)]

InClasses(q, c) == \E i \in 1..Len(q.classes) : q.classes[i] = c

\* the solutions of the WHERE clause, grouped (lines 258-278)
Rows(q, store) ==
    {[profile |-> c.profile,
      title |-> Title(c.profile),
      class |-> c.class,
      distance |-> Cardinality(SubClassChain(c.class)),
      req_profile |-> ReqProfile(q, c.profile),
      def_profile |-> HasDefaultProfile(c.class, c.profile),
      format |-> c.format,
      req_format |-> ReqFormat(q, c.format),
      def_format |-> HasDefaultResourceFormat(c.profile, c.format)] :
        c \in {x \in store : InClasses(q, x.class)
                             /\ q.profile_class \in ProfileTypes(x.profile)}}

\* SPARQL's order of the values of one ORDER BY variable: unbound is lowest,
\* false < true, numbers by value, strings by code point
OrderValue(row, var) ==
    CASE var = "req_profile" ->
            (CASE row.req_profile = "true" -> 1 [] row.req_profile = "false" -> 0
               [] OTHER -> -1)
      [] var = "distance" -> row.distance
      [] var = "def_profile" -> IF row.def_profile THEN 1 ELSE 0
      [] var = "req_format" ->
            IF row.req_format.bound THEN StrRank(row.req_format.v) ELSE -1
      [] OTHER -> IF row.def_format THEN 1 ELSE 0

\* a precedes-or-ties b under ORDER BY DESC(keys[1]) DESC(keys[2]) ...
RECURSIVE NotBelow(_, _, _)
NotBelow(keys, a, b) ==
    IF keys = <<>> THEN TRUE
    ELSE LET x == OrderValue(a, Head(keys))
             y == OrderValue(b, Head(keys))
         IN  x > y \/ (x = y /\ NotBelow(Tail(keys), a, b))

\* every answer the repository may give: the rows in an order the ORDER BY allows
RankedAnswers(q, store) ==
    {s \in Perms(Rows(q, store)) :
        \A i, j \in 1..Len(s) : i < j => NotBelow(q.order_by, s[i], s[j])}

\* _get_available, lines 202-210
AvailableOf(rows) ==
    [i \in 1..Len(rows) |->
        [profile |-> rows[i].profile, title |-> rows[i].title,
         mediatype |-> rows[i].format, class |-> rows[i].class]]

\* the stores the profile metadata may be
Stores == SUBSET Universe

(***************************************************************************)
(* NegotiatedPMTs.setup(), one action per stretch between two awaits.      *)
(***************************************************************************)
NoError == [type |-> "", args |-> <<>>]
Raised(type, args) == [type |-> type, args |-> args]
Call(kind, arg) == [kind |-> kind, arg |-> arg]

\* the headers: no preference header, or both of them
HeaderChoices ==
    {[accept_profile |-> <<>>, accept |-> <<>>],
     [accept_profile |-> << <<"<P2>">> >>,
      accept |-> << <<"application/ld+json", "0.5">> >>]}

\* the requests: at most MaxPrefs entries in the two query parameters together
Requests ==
    UNION {{[params |-> [profile |-> pp, mediatype |-> pm],
             headers |-> h,
             classes |-> <<"Child", "Base">>,
             listing |-> l] :
                pm \in ListsOf(EntriesOf(MediatypeNames), MaxPrefs - Len(pp)),
                h \in HeaderChoices,
                l \in BOOLEAN} :
           pp \in ListsOf(EntriesOf(ProfileNames), MaxPrefs)}

\* the last element taken for the first
First_last(list) == list[Len(list)]

\* the first element of the ordered list (line 104)
First(list) == list[1]

\* the test of line 309 inverted
DoQueryRaises_inverted(rows) == rows # <<>>

\* if not response[1][0][1] (line 309)
DoQueryRaises(rows) == rows = <<>>

InitGenerators ==
    /\ listing_args = Nothing
    /\ listing_query = Nothing
    /\ item_args = Nothing
    /\ item_query = Nothing
    /\ item_predicates = Nothing
    /\ listing_answer = Nothing

\* no response header is built yet, and no negotiation has been made before
InitHeaders == headers = Nothing /\ first_run = Nothing

\* no /search and no /sparql request is being served
InitFederation ==
    /\ search_args = Nothing
    /\ search_pc = "idle"
    /\ endpoint_details = <<>>
    /\ fed_s = <<>>
    /\ retries = 0
    /\ results = Nothing
    /\ template_context = Nothing
    /\ search_error = NoError
    /\ attempts = <<>>
    /\ sparql_args = Nothing
    /\ sparql_response = Nothing

\* no SearchQuery is built
InitSearchQuery ==
    /\ sq_args = Nothing
    /\ sq_query = Nothing
    /\ sq_grouped = Nothing
    /\ sq_rows = Nothing

\* no query text is emitted
InitEmit ==
    /\ inj_args = Nothing
    /\ inj_query = Nothing

InitUpdate ==
    /\ update_args = Nothing
    /\ update_pc = "idle"
    /\ profiles_graph_cache = {}
    /\ pyoxi_store = {}
    /\ old_profile = {}
    /\ new_profile_g = {}
    /\ update_response = 0

InitObjects ==
    /\ nodeshape_given = Nothing
    /\ profile_nodeshape = Nothing
    /\ object_calls = <<>>

InitDispatch ==
    /\ dispatch_args = Nothing
    /\ dispatch_idx = 0
    /\ dispatch_response = Nothing

InitNegotiation ==
    /\ pc = "start"
    /\ idx = 0
    /\ acc = <<>>
    /\ requested_profiles = Nothing
    /\ requested_mediatypes = Nothing
    /\ query = Nothing
    /\ response = Nothing
    /\ available = Nothing
    /\ selected = Nothing
    /\ error = NoError
    /\ calls = <<>>

Init ==
    /\ request \in Requests
    /\ InitNegotiation
    /\ InitDispatch
    /\ InitObjects
    /\ InitUpdate
    /\ InitGenerators
    /\ InitHeaders
    /\ InitFederation
    /\ InitSearchQuery
    /\ InitEmit

\* _get_requested_profiles up to its first _tupilize
GetRequestedProfiles ==
    /\ pc = "start"
    /\ IF RawProfiles(request) = <<>>
       THEN /\ pc' = "mediatypes"
            /\ requested_profiles' = Nothing
            /\ UNCHANGED idx
       ELSE /\ pc' = "tupilize"
            /\ idx' = 1
            /\ UNCHANGED requested_profiles
    /\ UNCHANGED <<request, acc, requested_mediatypes, query, response, available,
                   selected, error, calls>>
    /\ UNCHANGED notneg

\* _tupilize of a profile entry that looks like a URI
TupilizeUri ==
    /\ pc = "tupilize"
    /\ idx <= Len(RawProfiles(request))
    /\ LooksLikeUri(RawProfiles(request)[idx][1])
    /\ acc' = Append(acc, Tupilize(RawProfiles(request)[idx]))
    /\ idx' = idx + 1
    /\ UNCHANGED <<request, pc, requested_profiles, requested_mediatypes, query,
                   response, available, selected, error, calls>>
    /\ UNCHANGED notneg

\* _tupilize of a profile entry that is a token: await _resolve_token
TupilizeToken ==
    /\ pc = "tupilize"
    /\ idx <= Len(RawProfiles(request))
    /\ LET parts == RawProfiles(request)[idx]
       IN  /\ ~LooksLikeUri(parts[1])
           /\ calls' = Append(calls, Call("resolve_token", parts[1]))
           /\ IF TokenResolves(parts[1])
              THEN /\ acc' = Append(acc, Tuple(ResolveToken(parts[1]), TupilizeWeight(parts)))
                   /\ idx' = idx + 1
                   /\ UNCHANGED pc
              ELSE /\ pc' = "curie"      \* TokenError
                   /\ UNCHANGED <<acc, idx>>
    /\ UNCHANGED <<request, requested_profiles, requested_mediatypes, query,
                   response, available, selected, error>>
    /\ UNCHANGED notneg

\* the except TokenError branch: await get_uri_for_curie_id
TupilizeCurie ==
    /\ pc = "curie"
    /\ LET parts == RawProfiles(request)[idx]
           name == IF CurieResolves(parts[1]) THEN ResolveCurie(parts[1]) ELSE ""
       IN  /\ calls' = Append(calls, Call("get_uri_for_curie_id", parts[1]))
           /\ acc' = Append(acc, Tuple(name, TupilizeWeight(parts)))
    /\ idx' = idx + 1
    /\ pc' = "tupilize"
    /\ UNCHANGED <<request, requested_profiles, requested_mediatypes, query,
                   response, available, selected, error>>
    /\ UNCHANGED notneg

\* return self._prioritize(profiles)
PrioritizeProfiles ==
    /\ pc = "tupilize"
    /\ idx > Len(RawProfiles(request))
    /\ IF PrioritizeRaises(acc)
       THEN /\ pc' = "failed"
            /\ error' = Raised("TypeError", <<>>)
            /\ UNCHANGED requested_profiles
       ELSE /\ pc' = "mediatypes"
            /\ requested_profiles' = Some(Prioritize(acc))
            /\ UNCHANGED error
    /\ UNCHANGED <<request, idx, acc, requested_mediatypes, query, response,
                   available, selected, calls>>
    /\ UNCHANGED notneg

\* _get_requested_mediatypes: no entry of it awaits a collaborator
GetRequestedMediatypes ==
    /\ pc = "mediatypes"
    /\ LET raw == RawMediatypes(request)
           mediatypes == MapTupilize(raw)
       IN  IF raw = <<>>
           THEN /\ pc' = "compose"
                /\ requested_mediatypes' = Nothing
                /\ UNCHANGED error
           ELSE IF PrioritizeRaises(mediatypes)
           THEN /\ pc' = "failed"
                /\ error' = Raised("TypeError", <<>>)
                /\ UNCHANGED requested_mediatypes
           ELSE /\ pc' = "compose"
                /\ requested_mediatypes' = Some(Prioritize(mediatypes))
                /\ UNCHANGED error
    /\ UNCHANGED <<request, idx, acc, requested_profiles, query, response,
                   available, selected, calls>>
    /\ UNCHANGED notneg

\* setup() asking for the available combinations before it parsed a preference
SendQuery_before_parsing ==
    /\ pc = "start"
    /\ query' = Some(ComposeSelectQuery(request, requested_profiles,
                                        requested_mediatypes, <<>>))
    /\ calls' = Append(calls, Call("send_queries", RequestedProfile(requested_profiles)))
    /\ pc' = "awaiting"
    /\ UNCHANGED <<request, idx, acc, requested_profiles, requested_mediatypes,
                   response, available, selected, error>>
    /\ UNCHANGED notneg

\* _get_available: compose the query and send it (_do_query, line 308)
SendQuery ==
    /\ pc = "compose"
    /\ \E ifs \in IfOrders(requested_mediatypes) :
          query' = Some(ComposeSelectQuery(request, requested_profiles,
                                           requested_mediatypes, ifs))
    /\ calls' = Append(calls, Call("send_queries", RequestedProfile(requested_profiles)))
    /\ pc' = "awaiting"
    /\ UNCHANGED <<request, idx, acc, requested_profiles, requested_mediatypes,
                   response, available, selected, error>>
    /\ UNCHANGED notneg

\* the repository rejects a query it cannot parse
QueryRejected ==
    /\ pc = "awaiting"
    /\ ~WellFormed(query.v)
    /\ pc' = "failed"
    /\ error' = Raised("QuerySyntaxRejected", <<>>)
    /\ UNCHANGED <<request, idx, acc, requested_profiles, requested_mediatypes,
                   query, response, available, selected, calls>>
    /\ UNCHANGED notneg

\* _do_query, lines 309-310: the answer holds no row
NoProfiles ==
    /\ pc = "awaiting"
    /\ WellFormed(query.v)
    /\ \E store \in Stores :
          \E answer \in RankedAnswers(query.v, store) :
              /\ DoQueryRaises(answer)
              /\ response' = Some(answer)
    /\ pc' = "failed"
    /\ error' = Raised("NoProfilesException", request.classes)
    /\ UNCHANGED <<request, idx, acc, requested_profiles, requested_mediatypes,
                   query, available, selected, calls>>
    /\ UNCHANGED notneg

\* _do_query returns rows; _get_available, lines 202-213; setup, lines 103-104
SelectAvailable ==
    /\ pc = "awaiting"
    /\ WellFormed(query.v)
    /\ \E store \in Stores :
          \E answer \in RankedAnswers(query.v, store) :
              /\ ~DoQueryRaises(answer)
              /\ AvailableOf(answer) # <<>>      \* line 211
              /\ response' = Some(answer)
              /\ available' = Some(AvailableOf(answer))
              /\ selected' = Some(First(AvailableOf(answer)))
    /\ pc' = "done"
    /\ UNCHANGED <<request, idx, acc, requested_profiles, requested_mediatypes,
                   query, error, calls>>
    /\ UNCHANGED notneg

\* settings.system_uri and self.current_path
SystemUri == "https://prez.example"
CurrentPath == "/object"

\* get_curie_id_for_uri: the CURIE of a profile
CurieIdForUri(uri) == "ex:" \o uri

\* the media type of the combination the store ranked last
ContentType_last_available(self) == self.available[Len(self.available)].mediatype

\* "Content-Type": self.selected["mediatype"] (line 232)
ContentType(self) == self.selected.mediatype

\* one link of mediatype_header_links (lines 225-230)
MediatypeLink(self, pmt) ==
    [url |-> SystemUri \o CurrentPath \o "?_profile=" \o CurieIdForUri(pmt.profile)
             \o "&_mediatype=" \o pmt.mediatype,
     rel |-> IF pmt = self.selected THEN "self" ELSE "alternate",
     type |-> pmt.mediatype,
     format |-> pmt.profile]

\* {(pmt["profile"], pmt["title"]) for pmt in self.available} (line 217)
DistinctProfiles(self) ==
    {<<self.available[i].profile, self.available[i].title>> :
        i \in 1..Len(self.available)}

\* one link of profile_header_links for a distinct profile (lines 221-222)
ProfileTypeLink(pmt) ==
    [uri |-> "<http://www.w3.org/ns/dx/prof/Profile>", rel |-> "type",
     title |-> pmt[2], token |-> CurieIdForUri(pmt[1]), anchor |-> pmt[1]]

\* generate_response_headers, lines 215-235, the set of line 217 being
\* gone through in the given order
ResponseHeaders(self, distinct_profiles) ==
    [content_type |-> ContentType(self),
     profile_links |->
        <<[uri |-> Bracket(self.selected.profile), rel |-> "profile",
           title |-> "", token |-> "", anchor |-> ""]>>
        \o [i \in 1..Len(distinct_profiles) |-> ProfileTypeLink(distinct_profiles[i])],
     mediatype_links |->
        [i \in 1..Len(self.available) |-> MediatypeLink(self, self.available[i])]]

\* the caller asks for the response headers once setup has returned
GenerateResponseHeaders ==
    /\ pc = "done"
    /\ ~headers.some
    /\ LET self == [available |-> available.v, selected |-> selected.v]
       IN \E distinct_profiles \in Perms(DistinctProfiles(self)) :
             headers' = Some(ResponseHeaders(self, distinct_profiles))
    /\ UNCHANGED negvars
    /\ UNCHANGED <<first_run, genvars, fedvars, sqvars, injvars, updvars, objvars, dispvars>>

\* the steps of setup()
Setup ==
    \/ GetRequestedProfiles
    \/ TupilizeUri
    \/ TupilizeToken
    \/ TupilizeCurie
    \/ PrioritizeProfiles
    \/ GetRequestedMediatypes
    \/ SendQuery
    \/ QueryRejected
    \/ NoProfiles
    \/ SelectAvailable

Next ==
    \/ Setup
    \/ GenerateResponseHeaders

Spec == Init /\ [][Next]_vars

\* what a negotiation that has ended gave
Outcome ==
    [requested_profiles |-> requested_profiles,
     requested_mediatypes |-> requested_mediatypes,
     response |-> response,
     selected |-> selected,
     error |-> error]

\* the same request comes again: a new NegotiatedPMTs of the same headers,
\* params, classes and listing is set up
Renegotiate ==
    /\ pc \in {"done", "failed"}
    /\ ~first_run.some
    /\ first_run' = Some(Outcome)
    /\ pc' = "start"
    /\ idx' = 0
    /\ acc' = <<>>
    /\ requested_profiles' = Nothing
    /\ requested_mediatypes' = Nothing
    /\ query' = Nothing
    /\ response' = Nothing
    /\ available' = Nothing
    /\ selected' = Nothing
    /\ error' = NoError
    /\ calls' = <<>>
    /\ headers' = Nothing
    /\ UNCHANGED <<request, genvars, fedvars, sqvars, injvars, updvars, objvars, dispvars>>

NextTwice ==
    \/ Setup
    \/ Renegotiate

\* the requests that are negotiated twice: those of an object, with their
\* preferences in the query parameters
InitTwice ==
    /\ request \in {r \in Requests : ~r.listing /\ r.headers.accept = <<>>}
    /\ InitNegotiation
    /\ InitDispatch
    /\ InitObjects
    /\ InitUpdate
    /\ InitGenerators
    /\ InitHeaders
    /\ InitFederation
    /\ InitSearchQuery
    /\ InitEmit

SpecTwice == InitTwice /\ [][NextTwice]_vars

(***************************************************************************)
(* Negotiation: ranking, selection, errors, order of the steps.            *)
(***************************************************************************)
\* the combination is of the profile the request asks for first
MatchesRequested(row) ==
    /\ requested_profiles.some
    /\ requested_profiles.v # <<>>
    /\ requested_profiles.v[1].name = Bracket(row.profile)

\* the combination's format is one the request asks for
FormatRequested(row) ==
    /\ requested_mediatypes.some
    /\ \E i \in 1..Len(requested_mediatypes.v) :
          requested_mediatypes.v[i].name = row.format

\* C1: the answer is ordered by requested-profile match, then subclass
\* distance, then default-profile flag, then requested-format match, then
\* default-format flag, each descending: a combination of the requested profile
\* is above every one that is not, and among combinations equal on that one
\* with the greater distance is above one that is only the class's default.
C1_Ranking ==
    response.some =>
        \A i, j \in 1..Len(response.v) :
            i < j =>
                LET a == response.v[i]
                    b == response.v[j]
                IN  /\ MatchesRequested(b) => MatchesRequested(a)
                    /\ MatchesRequested(a) = MatchesRequested(b) =>
                          /\ a.distance >= b.distance
                          /\ a.distance = b.distance =>
                                /\ b.def_profile => a.def_profile
                                /\ a.def_profile = b.def_profile =>
                                      /\ FormatRequested(b) => FormatRequested(a)
                                      /\ a.req_format = b.req_format =>
                                            (b.def_format => a.def_format)

C1_Witness ==
    /\ pc = "done"
    /\ Len(response.v) = 3
    /\ MatchesRequested(response.v[1])
    /\ ~MatchesRequested(response.v[2])
    /\ response.v[1].distance < response.v[2].distance
    /\ ~MatchesRequested(response.v[3])
    /\ response.v[2].distance > response.v[3].distance
    /\ ~response.v[2].def_profile
    /\ response.v[3].def_profile

\* C2: after setup() succeeded, selected is available[0] and available holds
\* the rows of the answer, each once, in the order of the answer.
C2_SelectedIsFirst ==
    pc = "done" =>
        /\ available.some
        /\ selected.some
        /\ selected.v = available.v[1]
        /\ Len(available.v) = Len(response.v)
        /\ \A i \in 1..Len(response.v) :
              /\ available.v[i].profile = response.v[i].profile
              /\ available.v[i].title = response.v[i].title
              /\ available.v[i].mediatype = response.v[i].format
              /\ available.v[i].class = response.v[i].class

C2_Witness ==
    /\ pc = "done"
    /\ Len(available.v) = 3
    /\ available.v[1] # available.v[3]
    /\ selected.v = available.v[1]

\* C3: an answer of zero rows ends setup() in NoProfilesException, which
\* carries the candidate classes, with selected not assigned; an answer of one
\* row or more raises nothing and selected is assigned.
C3_NoProfiles ==
    /\ (response.some /\ response.v = <<>>) =>
          /\ pc = "failed"
          /\ error = Raised("NoProfilesException", request.classes)
          /\ ~selected.some
    /\ (response.some /\ response.v # <<>>) =>
          /\ pc = "done"
          /\ error = NoError
          /\ selected.some
    /\ error.type = "NoProfilesException" => (response.some /\ response.v = <<>>)

C3_Witness ==
    /\ response.some
    /\ response.v = <<>>
    /\ error.type = "NoProfilesException"
    /\ requested_profiles.some

\* the lookups the profile entries trigger, in the order of the entries
RECURSIVE LookupsOf(_)
LookupsOf(raw) ==
    IF raw = <<>> THEN <<>>
    ELSE LET name == Head(raw)[1]
         IN  (IF LooksLikeUri(name) THEN <<>>
              ELSE IF TokenResolves(name) THEN <<Call("resolve_token", name)>>
              ELSE <<Call("resolve_token", name), Call("get_uri_for_curie_id", name)>>)
             \o LookupsOf(Tail(raw))

StepRank(p) ==
    CASE p = "start" -> 0
      [] p \in {"tupilize", "curie"} -> 1
      [] p = "mediatypes" -> 2
      [] p = "compose" -> 3
      [] p = "awaiting" -> 4
      [] OTHER -> 5

C4_QueryAfterParsing ==
    query.some =>
        /\ RawProfiles(request) # <<>> =>
              /\ requested_profiles.some
              /\ Len(requested_profiles.v) = Len(RawProfiles(request))
        /\ RawMediatypes(request) # <<>> => requested_mediatypes.some
        /\ calls = LookupsOf(RawProfiles(request))
                      \o <<Call("send_queries", query.v.requested_profile)>>
        /\ query.v.requested_profile =
              (IF requested_profiles.some THEN requested_profiles.v[1].name ELSE "")

C4_StepOrder ==
    /\ StepRank(pc) <= StepRank(pc')
    /\ (requested_profiles' # requested_profiles) => (StepRank(pc) <= 1 /\ pc' = "mediatypes")
    /\ (requested_mediatypes' # requested_mediatypes) => (pc = "mediatypes" /\ pc' = "compose")
    /\ (query' # query) => (pc = "compose" /\ pc' = "awaiting")
    /\ (selected' # selected) => (pc = "awaiting" /\ pc' = "done")

\* C4: setup() parses the profile preferences, with every token and CURIE
\* lookup they trigger, then the media type preferences, then asks for the
\* available combinations, then selects; the query is never sent before the
\* profile preferences are parsed, and it holds the requested profile they gave.
C4_Order == [](C4_QueryAfterParsing) /\ [][C4_StepOrder]_vars

C4_Witness ==
    /\ pc = "done"
    /\ Len(calls) = 4
    /\ calls[2].kind = "get_uri_for_curie_id"
    /\ query.v.requested_profile = "<P2>"
    /\ requested_mediatypes.some

\* the parsed profile entries that resolved
Resolved(profiles) == SelectSeq(profiles, LAMBDA t : t.name # "")

\* C5: a profile entry that resolves neither as a token nor as a CURIE does
\* not abort the negotiation and is dropped: the query holds the
\* highest-weighted entry that resolved.
C5_UnresolvedDropped ==
    (query.some /\ requested_profiles.some) =>
        query.v.requested_profile =
            (IF Resolved(requested_profiles.v) = <<>> THEN ""
             ELSE Resolved(requested_profiles.v)[1].name)

NumericWeights(list) == \A i \in 1..Len(list) : list[i].w.isnum

\* C6: every parsed entry has a numeric weight, the default one when the
\* weight is missing or malformed, and a malformed weight never makes parsing
\* or prioritising fail.
C6_NumericWeights ==
    /\ NumericWeights(acc)
    /\ requested_profiles.some => NumericWeights(requested_profiles.v)
    /\ requested_mediatypes.some => NumericWeights(requested_mediatypes.v)
    /\ error.type # "TypeError"

(***************************************************************************)
(* The query generators of prez/services/sparql_new.py.  A query is held   *)
(* as the sequence of the lines of its text, stripped of indentation; the  *)
(* solution modifiers of a listing query are held as (keyword, number).    *)
(***************************************************************************)
NoInt == [some |-> FALSE, n |-> 0]
SomeInt(n) == [some |-> TRUE, n |-> n]

DefaultPerPage == 20

Pages == {NoInt} \cup {SomeInt(n) : n \in -1..MaxPage}
PerPages == {NoInt} \cup {SomeInt(n) : n \in (-1..MaxPerPage) \cup {DefaultPerPage}}

\* the items listed: a parent to list the members of, or none
ListingItems ==
    {[uri |-> u, children_general_class |-> "dcat:Dataset",
      link_constructor |-> "/s/datasets/"] : u \in {"", "ex:catalog"}}

Clause(kw, n) == [kw |-> kw, n |-> n]

\* the LIMIT and OFFSET with the offset of page, not of page - 1
ListingModifiers_offset_of_page(page, per_page) ==
    IF page.some /\ per_page.some
    THEN <<Clause("LIMIT", per_page.n), Clause("OFFSET", page.n * per_page.n)>>
    ELSE <<>>

\* the LIMIT written whenever per_page is given
ListingModifiers_limit_alone(page, per_page) ==
    IF page.some /\ per_page.some
    THEN <<Clause("LIMIT", per_page.n), Clause("OFFSET", (page.n - 1) * per_page.n)>>
    ELSE IF per_page.some THEN <<Clause("LIMIT", per_page.n)>>
    ELSE <<>>

\* line 38
ListingModifiers(page, per_page) ==
    IF page.some /\ per_page.some
    THEN <<Clause("LIMIT", per_page.n), Clause("OFFSET", (page.n - 1) * per_page.n)>>
    ELSE <<>>

\* generate_listing_construct, lines 18-39
GenerateListingConstruct(item, page, per_page) ==
    [construct |->
        <<"CONSTRUCT {",
          "?item dcterms:identifier ?id ;",
          "rdfs:label ?label ;",
          "prez:link ?link .",
          "prez:memberList a rdf:Bag ;",
          "rdfs:member ?item .",
          "}">>,
     where |->
        <<"WHERE {">>
        \o (IF item.uri # "" THEN <<Bracket(item.uri) \o " rdfs:member ?item .">> ELSE <<>>)
        \o <<"?item a " \o Bracket(item.children_general_class) \o " ;",
             "dcterms:identifier ?id ;",
             "rdfs:label|dcterms:title|skos:prefLabel ?label .",
             "FILTER(DATATYPE(?id) = xsd:token)",
             "BIND(CONCAT(\"" \o item.link_constructor \o "\", STR(?id)) AS ?link)",
             "}">>,
     modifiers |-> ListingModifiers(page, per_page)]

\* a listing request: its one call of generate_listing_construct
GenerateListing ==
    /\ ~listing_query.some
    /\ ~item_query.some
    /\ \E item \in ListingItems, page \in Pages, per_page \in PerPages :
          /\ listing_args' = Some([item |-> item, page |-> page, per_page |-> per_page])
          /\ listing_query' = Some(GenerateListingConstruct(item, page, per_page))
    /\ UNCHANGED <<item_args, item_query, item_predicates, listing_answer>>
    /\ UNCHANGED notgen

\* the label predicates of a listed item in the repository: the value of
\* each, "" when the item has none
LabelPredicates == <<"rdfs:label", "dcterms:title", "skos:prefLabel">>
LabelStores ==
    {[p \in {"rdfs:label", "dcterms:title", "skos:prefLabel"} |-> IF p \in S THEN "value of " \o p ELSE ""] :
        S \in SUBSET {"rdfs:label", "dcterms:title", "skos:prefLabel"}}

\* the property path before ?label in the WHERE of the query (line 35): the
\* predicates of its alternatives
LabelPath(q) ==
    IF \E i \in 1..Len(q.where) :
          q.where[i] = "rdfs:label|dcterms:title|skos:prefLabel ?label ."
    THEN {"rdfs:label", "dcterms:title", "skos:prefLabel"}
    ELSE {}

\* the solutions of the WHERE for one item that has its class and identifier:
\* a path p1|p2|p3 gives one solution for every value of every alternative
ListingSolutions(q, store) ==
    {[item |-> "ex:item", label |-> store[p]] : p \in {x \in LabelPath(q) : store[x] # ""}}

\* LIMIT and OFFSET applied to the solutions in one order
Slice(order, modifiers) ==
    IF modifiers = <<>> THEN order
    ELSE LET limit == modifiers[1].n
             offset == modifiers[2].n
             last == IF offset + limit < Len(order) THEN offset + limit ELSE Len(order)
         IN  SubSeq(order, offset + 1, last)

\* the repository answers the listing query: the rdfs:label triples of the
\* CONSTRUCT template for the solutions within LIMIT and OFFSET; a query with
\* a negative LIMIT or OFFSET is rejected
EvaluateListing ==
    /\ listing_query.some
    /\ ~listing_answer.some
    /\ \A k \in 1..Len(listing_query.v.modifiers) : listing_query.v.modifiers[k].n >= 0
    /\ \E store \in LabelStores :
          \E order \in Perms(ListingSolutions(listing_query.v, store)) :
              LET slice == Slice(order, listing_query.v.modifiers)
              IN  listing_answer' =
                      Some([store |-> store,
                            labels |-> {slice[k].label : k \in 1..Len(slice)}])
    /\ UNCHANGED <<listing_args, listing_query, item_args, item_query, item_predicates>>
    /\ UNCHANGED notgen

(***************************************************************************)
(* get_profile_predicates and generate_item_construct.                     *)
(***************************************************************************)
DefaultBnodeDepth == 2
LargeOutboundLimit == 10

\* a node shape of profiles_graph_cache; hidden holds the paths the profile
\* marks dash:hidden
NodeShape(profile, class, paths, hidden, inverses, sequences, large) ==
    [profile |-> profile, targetClass |-> class, path |-> paths, hidden |-> hidden,
     inversePath |-> inverses, sequencePath |-> sequences,
     largeOutboundLinks |-> large]

\* the contents profiles_graph_cache may have: one node shape of profile P1
Caches ==
    {{NodeShape("P1", class, paths, hidden, inverses, sequences, large)} :
        class \in {"geo:Feature", "dcat:Dataset"},
        paths \in SUBSET {"ex:name", "ex:title"},
        hidden \in SUBSET {"ex:name"},
        inverses \in SUBSET {"ex:partOf"},
        sequences \in {{}, {<<"ex:a", "ex:b">>},
                       {<<"ex:a", "ex:b">>, <<"ex:c", "ex:d", "ex:e">>}},
        large \in SUBSET {"ex:member"}}

\* the profiles handed to generate_item_construct: bnode_depth set or not
ItemProfiles ==
    {[uri |-> "P1", bnode_depth |-> d] :
        d \in {NoInt} \cup {SomeInt(n) : n \in -1..MaxDepth}}

Items == {[uri |-> "ex:feature1", general_class |-> "geo:Feature"]}

\* return None, None, None, None, None (line 270)
NonePredicates ==
    [includes |-> Nothing, excludes |-> Nothing, inverses |-> Nothing,
     sequences |-> Nothing, large_outbound |-> Nothing]

\* the value of "excludes = ..." (line 277)
Ellipsis == Some(<<"...">>)

\* the test Python makes of a value in an if
Truthy(x) == x.some /\ x.v # <<>>

\* get_profile_predicates: every result the cache allows, the order of the
\* triples a graph gives being any order
ProfilePredicates(cache, profile, general_class) ==
    LET relevant == {sh \in cache : sh.profile = profile.uri
                                    /\ sh.targetClass = general_class}
        all(field) == UNION {sh[field] : sh \in relevant}
    IN  IF relevant = {} THEN {NonePredicates}
        ELSE {[includes |-> Some(inc), excludes |-> Ellipsis,
               inverses |-> Some(inv), sequences |-> Some(seqs),
               large_outbound |-> Some(large)] :
                 inc \in Perms(all("path")),
                 inv \in Perms(all("inversePath")),
                 seqs \in Perms(all("sequencePath")),
                 large \in Perms(all("largeOutboundLinks"))}

\* profile.get("bnode_depth", 2)
BnodeDepth(profile) ==
    IF profile.bnode_depth.some THEN profile.bnode_depth.n ELSE DefaultBnodeDepth

Var(name, i) == "?" \o name \o ToString(i)

\* "?o{i} ?p{i+1} ?o{i+1} ."
BnodeTriple(i) == Var("o", i) \o " " \o Var("p", i + 1) \o " " \o Var("o", i + 1) \o " ."
BnodeFilter(i) == "FILTER(ISBLANK(" \o Var("o", i) \o "))"

\* generate_bnode_construct: range(depth) is empty for depth <= 0
GenerateBnodeConstruct(depth) ==
    [k \in 1..(IF depth > 0 THEN depth ELSE 0) |-> BnodeTriple(k)]

\* one level too many opened
GenerateBnodeSelect_one_more(depth) ==
    LET d == IF depth > 0 THEN depth ELSE 0
    IN  [k \in 1..(3 * (d + 1)) |->
            LET i == ((k - 1) \div 3) + 1
            IN  CASE (k - 1) % 3 = 0 -> "OPTIONAL {"
                  [] (k - 1) % 3 = 1 -> BnodeFilter(i)
                  [] OTHER -> BnodeTriple(i)]
        \o [k \in 1..(d + 1) |-> "}"]

\* generate_bnode_select: part_one, three lines a level, then part_two, the
\* closing braces
GenerateBnodeSelect(depth) ==
    LET d == IF depth > 0 THEN depth ELSE 0
    IN  [k \in 1..(3 * d) |->
            LET i == ((k - 1) \div 3) + 1
            IN  CASE (k - 1) % 3 = 0 -> "OPTIONAL {"
                  [] (k - 1) % 3 = 1 -> BnodeFilter(i)
                  [] OTHER -> BnodeTriple(i)]
        \o [k \in 1..d |-> "}"]

\* generate_sequence_construct: one chain
SequenceChain(object_uri, predicate_list) ==
    <<Bracket(object_uri) \o " " \o Bracket(predicate_list[1]) \o " ?seq_o1 .">>
    \o [i \in 1..(Len(predicate_list) - 1) |->
           Var("seq_o", i) \o " " \o Bracket(predicate_list[i + 1]) \o " "
           \o Var("seq_o", i + 1) \o " ."]

RECURSIVE GenerateSequenceConstruct(_, _)
GenerateSequenceConstruct(object_uri, sequence_predicates) ==
    IF sequence_predicates = <<>> THEN <<>>
    ELSE SequenceChain(object_uri, Head(sequence_predicates))
         \o GenerateSequenceConstruct(object_uri, Tail(sequence_predicates))

ValuesClause(var, predicates) ==
    IF predicates = <<>> THEN <<>>
    ELSE <<"VALUES " \o var \o "{">>
         \o [i \in 1..Len(predicates) |-> Bracket(predicates[i])]
         \o <<"}">>

\* a VALUES clause written for an empty list too
GenerateIncludePredicates_always(include_predicates) ==
    <<"VALUES ?p{">>
    \o [i \in 1..Len(include_predicates.v) |-> Bracket(include_predicates.v[i])]
    \o <<"}">>

\* generate_include_predicates
GenerateIncludePredicates(include_predicates) ==
    IF Truthy(include_predicates) THEN ValuesClause("?p", include_predicates.v) ELSE <<>>

\* generate_inverse_predicates
GenerateInversePredicates(inverse_predicates) ==
    IF Truthy(inverse_predicates) THEN ValuesClause("?inbound_p", inverse_predicates.v)
    ELSE <<>>

\* generage_large_outbound_links
GenerateLargeOutboundLinks(uri, outbound_predicate) ==
    <<"UNION",
      "{",
      "SELECT * {",
      Bracket(uri) \o " " \o Bracket(outbound_predicate[1]) \o " ?o1 ;",
      "?p ?o1",
      "} LIMIT " \o ToString(LargeOutboundLimit) \o "}">>

\* generate_item_construct, lines 53-71, for the predicates
\* get_profile_predicates returned
GenerateItemConstruct(item, profile, preds) ==
    LET object_uri == item.uri
        sequence == IF Truthy(preds.sequences)
                    THEN GenerateSequenceConstruct(object_uri, preds.sequences.v)
                    ELSE <<>>
    IN  [construct |->
            <<"CONSTRUCT {", Bracket(object_uri) \o " ?p ?o1 .">>
            \o sequence
            \o (IF Truthy(preds.inverses)
                THEN <<"?s ?inbound_p " \o Bracket(object_uri) \o " .">> ELSE <<>>)
            \o GenerateBnodeConstruct(BnodeDepth(profile))
            \o <<"}">>,
         where |->
            <<"WHERE {", "{", Bracket(object_uri) \o " ?p ?o1 .">>
            \o sequence
            \o (IF Truthy(preds.inverses)
                THEN <<"?s ?inbound_p " \o Bracket(object_uri)>> ELSE <<>>)
            \o GenerateIncludePredicates(preds.includes)
            \o GenerateInversePredicates(preds.inverses)
            \o GenerateBnodeSelect(BnodeDepth(profile))
            \o <<"}">>
            \o (IF Truthy(preds.large_outbound)
                THEN GenerateLargeOutboundLinks(object_uri, preds.large_outbound.v)
                ELSE <<>>)
            \o <<"}">>]

\* an object request: its one call of generate_item_construct
GenerateItem ==
    /\ ~item_query.some
    /\ ~listing_query.some
    /\ \E item \in Items, profile \in ItemProfiles, cache \in Caches :
          \E preds \in ProfilePredicates(cache, profile, item.general_class) :
              /\ item_args' = Some([item |-> item, profile |-> profile, cache |-> cache])
              /\ item_predicates' = Some(preds)
              /\ UNCHANGED listing_answer
              /\ item_query' = Some(GenerateItemConstruct(item, profile, preds))
    /\ UNCHANGED <<listing_args, listing_query>>
    /\ UNCHANGED notgen

InitGen ==
    /\ request = [params |-> [profile |-> <<>>, mediatype |-> <<>>],
                  headers |-> [accept_profile |-> <<>>, accept |-> <<>>],
                  classes |-> <<"Child", "Base">>,
                  listing |-> FALSE]
    /\ InitNegotiation
    /\ InitDispatch
    /\ InitObjects
    /\ InitUpdate
    /\ InitGenerators
    /\ InitHeaders
    /\ InitFederation
    /\ InitSearchQuery
    /\ InitEmit

NextGen ==
    \/ GenerateListing
    \/ EvaluateListing
    \/ GenerateItem

SpecGen == InitGen /\ [][NextGen]_vars

(***************************************************************************)
(* Listing queries: pagination.                                            *)
(***************************************************************************)
ClausesOf(q, kw) == {k \in 1..Len(q.modifiers) : q.modifiers[k].kw = kw}

BothSupplied == listing_args.v.page.some /\ listing_args.v.per_page.some

\* C7: with page >= 1 and per_page >= 0 both supplied, the listing query ends
\* with exactly LIMIT per_page OFFSET (page - 1) * per_page: page 2 of 20 gives
\* LIMIT 20 OFFSET 20, page 1 gives OFFSET 0.
C7_Pagination ==
    (listing_query.some /\ BothSupplied
        /\ listing_args.v.page.n >= 1 /\ listing_args.v.per_page.n >= 0) =>
        LET page == listing_args.v.page.n
            per_page == listing_args.v.per_page.n
            m == listing_query.v.modifiers
        IN  /\ Len(m) = 2
            /\ m[1].kw = "LIMIT"
            /\ m[1].n = per_page
            /\ m[2].kw = "OFFSET"
            /\ m[2].n + per_page = page * per_page
            /\ page = 1 => m[2].n = 0
            /\ (page = 2 /\ per_page = 20) => (m[1].n = 20 /\ m[2].n = 20)

C7_Witness ==
    /\ listing_query.some
    /\ listing_args.v.page = SomeInt(2)
    /\ listing_args.v.per_page = SomeInt(20)
    /\ listing_query.v.modifiers = <<Clause("LIMIT", 20), Clause("OFFSET", 20)>>

\* C8: the listing query has a LIMIT and an OFFSET clause, one of each, if and
\* only if page and per_page are both supplied; otherwise it has neither, and
\* it never has one of the two without the other.
C8_BothOrNeither ==
    listing_query.some =>
        /\ BothSupplied =>
              /\ Cardinality(ClausesOf(listing_query.v, "LIMIT")) = 1
              /\ Cardinality(ClausesOf(listing_query.v, "OFFSET")) = 1
        /\ ~BothSupplied => listing_query.v.modifiers = <<>>
        /\ (ClausesOf(listing_query.v, "LIMIT") = {})
              = (ClausesOf(listing_query.v, "OFFSET") = {})

C8_Witness ==
    /\ listing_query.some
    /\ listing_args.v.per_page = SomeInt(20)
    /\ ~listing_args.v.page.some
    /\ listing_query.v.modifiers = <<>>

\* C9: the listing compiler never writes a negative OFFSET; for page <= 0 it
\* fails and returns no query text.
C9_NoNegativeOffset ==
    listing_args.some =>
        /\ (listing_args.v.page.some /\ listing_args.v.page.n <= 0) => ~listing_query.some
        /\ listing_query.some =>
              \A k \in ClausesOf(listing_query.v, "OFFSET") :
                  listing_query.v.modifiers[k].n >= 0

(***************************************************************************)
(* Item queries: the blank node levels.                                    *)
(***************************************************************************)
LinesOf(text, line) == {k \in 1..Len(text) : text[k] = line}

\* C10: for bnode_depth d >= 0 (2 when the profile sets none) the WHERE clause
\* of the item query holds exactly d nested OPTIONAL blocks, d opened and d
\* closed, level i guarded by FILTER(ISBLANK(?o_i)) and matching
\* ?o_i ?p_(i+1) ?o_(i+1); there is no level d + 1, no such triple without its
\* guard, and the CONSTRUCT template holds the triples of exactly these levels.
C10_BnodeDepth ==
    item_query.some =>
        LET set == item_args.v.profile.bnode_depth
            d == IF set.some THEN set.n ELSE 2
            W == item_query.v.where
            T == item_query.v.construct
            opened == LinesOf(W, "OPTIONAL {")
        IN  d >= 0 =>
              /\ Cardinality(opened) = d
              /\ d > 0 =>
                    \E first \in opened :
                        /\ \A i \in 1..d :
                              LET k == first + 3 * (i - 1)
                              IN  /\ W[k] = "OPTIONAL {"
                                  /\ W[k + 1] = BnodeFilter(i)
                                  /\ W[k + 2] = BnodeTriple(i)
                        /\ \A c \in 1..d : W[first + 3 * d + c - 1] = "}"
                        /\ W[first + 4 * d] = "}"
                        /\ \/ first + 4 * d = Len(W) - 1
                           \/ W[first + 4 * d + 1] = "UNION"
              /\ \A i \in 1..(MaxDepth + 2) :
                    /\ i > d => (LinesOf(W, BnodeFilter(i)) = {} /\ LinesOf(W, BnodeTriple(i)) = {})
                    /\ \A k \in LinesOf(W, BnodeTriple(i)) : k > 1 /\ W[k - 1] = BnodeFilter(i)
                    /\ Cardinality(LinesOf(T, BnodeTriple(i))) = (IF i <= d THEN 1 ELSE 0)

C10_Witness ==
    /\ item_query.some
    /\ item_args.v.profile.bnode_depth = SomeInt(3)
    /\ Cardinality(LinesOf(item_query.v.where, "OPTIONAL {")) = 3
    /\ LinesOf(item_query.v.where, BnodeTriple(3)) # {}
    /\ LinesOf(item_query.v.where, "UNION") # {}

(***************************************************************************)
(* The federated search of app.py (search, lines 248-293) and the /sparql  *)
(* endpoint (sparql_get, sparql_post).  SkosSearch of the fedsearch        *)
(* library and sparql_endpoint_query_multiple are collaborators: a call    *)
(* of theirs reaches every endpoint, each endpoint answers or fails, and   *)
(* the call returns or raises.                                             *)
(***************************************************************************)
MaxEndpoints == 2   \* endpoints named in one /search request

\* settings: the endpoints a search may be sent to
SEARCH_ENDPOINTS == {"self", "http://e1"}

SearchTerms == {Nothing, Some(""), Some("c")}

\* the endpoints parameter, Query(["self"]) when the request names none
EndpointParams ==
    ListsOf({"self", "http://e1", "http://other"}, MaxEndpoints) \ {<<>>}

SearchArgs == {[search |-> t, endpoints |-> e] : t \in SearchTerms, e \in EndpointParams}

\* lines 260-269: only the endpoints of the settings are used
EndpointDetails(endpoints) ==
    SelectSeq(endpoints, LAMBDA e : e \in SEARCH_ENDPOINTS)

\* what each endpoint did in one federated call
EndpointOutcomes(details) == [1..Len(details) -> {"ok", "fail"}]

Succeeded(outcome) == {k \in DOMAIN outcome : outcome[k] = "ok"}
Failed(outcome) == {k \in DOMAIN outcome : outcome[k] = "fail"}

\* the hits one endpoint answers with
Hits(endpoint, term) == <<[endpoint |-> endpoint, match |-> term]>>

\* what federated_search returns: the hits of the endpoints that answered
RECURSIVE FederatedResults(_, _, _)
FederatedResults(details, outcome, term) ==
    IF details = <<>> THEN <<>>
    ELSE LET n == Len(details)
             before == FederatedResults(SubSeq(details, 1, n - 1),
                                        [k \in 1..(n - 1) |-> outcome[k]], term)
         IN IF outcome[n] = "ok" THEN Append(before, Hits(details[n], term))
            ELSE before

\* SkosSearch.combine_search_results: one list of all the hits
RECURSIVE CombineSearchResults(_)
CombineSearchResults(lists) ==
    IF lists = <<>> THEN <<>>
    ELSE Head(lists) \o CombineSearchResults(Tail(lists))

\* the loop test with the bound passed by one
MayRetry_once_more(n) == n <= 3

\* while retries < 3 (line 272)
MayRetry(n) == n < 3

\* if retries == 3 (line 281)
RetriesExhausted(n) == n = 3

Attempt(outcome, raised) == [outcome |-> outcome, raised |-> raised]

\* lines 286-292
TemplateContext(args, res) ==
    [endpoint_options |-> SEARCH_ENDPOINTS,
     results |-> res,
     last_search_term |-> args.search,
     last_endpoints |-> args.endpoints]

\* line 255 and lines 256-271, or lines 284-293 when nothing is searched for
SearchStart ==
    /\ search_pc = "start"
    /\ IF search_args.v.search.some /\ search_args.v.search.v # ""
       THEN /\ endpoint_details' = EndpointDetails(search_args.v.endpoints)
            /\ fed_s' = <<>>
            /\ retries' = 0
            /\ search_pc' = "loop"
            /\ UNCHANGED <<results, template_context>>
       ELSE /\ results' = Some(<<>>)
            /\ template_context' = Some(TemplateContext(search_args.v, <<>>))
            /\ search_pc' = "rendered"
            /\ UNCHANGED <<endpoint_details, fed_s, retries>>
    /\ UNCHANGED <<search_args, search_error, attempts, sparql_args, sparql_response>>
    /\ UNCHANGED notfed

\* lines 273-277: the call returns and the loop is left
FederatedSearchReturns ==
    /\ search_pc = "loop"
    /\ MayRetry(retries)
    /\ \E outcome \in EndpointOutcomes(endpoint_details) :
          /\ fed_s' = FederatedResults(endpoint_details, outcome, search_args.v.search.v)
          /\ attempts' = Append(attempts, Attempt(outcome, FALSE))
    /\ search_pc' = "after_loop"
    /\ UNCHANGED <<search_args, endpoint_details, retries, results, template_context,
                   search_error, sparql_args, sparql_response>>
    /\ UNCHANGED notfed

\* lines 278-280: the call raises, which only a failing endpoint makes it do
FederatedSearchRaises ==
    /\ search_pc = "loop"
    /\ MayRetry(retries)
    /\ \E outcome \in EndpointOutcomes(endpoint_details) :
          /\ Failed(outcome) # {}
          /\ attempts' = Append(attempts, Attempt(outcome, TRUE))
    /\ retries' = retries + 1
    /\ UNCHANGED <<search_args, search_pc, endpoint_details, fed_s, results,
                   template_context, search_error, sparql_args, sparql_response>>
    /\ UNCHANGED notfed

\* line 272: the loop test fails
LoopExit ==
    /\ search_pc = "loop"
    /\ ~MayRetry(retries)
    /\ search_pc' = "after_loop"
    /\ UNCHANGED <<search_args, endpoint_details, fed_s, retries, results,
                   template_context, search_error, attempts, sparql_args,
                   sparql_response>>
    /\ UNCHANGED notfed

\* lines 281-282
MaxRetriesReached ==
    /\ search_pc = "after_loop"
    /\ RetriesExhausted(retries)
    /\ search_error' = Raised("Exception", <<"Max retries reached">>)
    /\ search_pc' = "failed"
    /\ UNCHANGED <<search_args, endpoint_details, fed_s, retries, results,
                   template_context, attempts, sparql_args, sparql_response>>
    /\ UNCHANGED notfed

\* lines 283-293
RenderResults ==
    /\ search_pc = "after_loop"
    /\ ~RetriesExhausted(retries)
    /\ results' = Some(CombineSearchResults(fed_s))
    /\ template_context' =
          Some(TemplateContext(search_args.v, CombineSearchResults(fed_s)))
    /\ search_pc' = "rendered"
    /\ UNCHANGED <<search_args, endpoint_details, fed_s, retries, search_error,
                   attempts, sparql_args, sparql_response>>
    /\ UNCHANGED notfed

\* the SPARQL endpoints of the enabled prezs, which a /sparql query is sent to
Prezs == <<"VocPrez", "SpacePrez">>

\* an accept header: its comma separated entries, each split at ";"
AcceptHeaders ==
    {Nothing, Some(<< <<"text/html">> >>), Some(<< <<"text/turtle">>, <<"text/html", "q=0.5">> >>),
     Some(<< <<"application/sparql-results+json", "q=0.9">> >>)}

\* a query: its words
SparqlQueries ==
    {Nothing, Some(<<"CONSTRUCT", "WHERE">>), Some(<<"DESCRIBE">>),
     Some(<<"SELECT", "WHERE">>)}

SparqlArgs ==
    {[method |-> m, accept |-> a, query |-> q, allow_partial |-> p, outcome |-> o] :
        m \in {"GET", "POST"}, a \in AcceptHeaders, q \in SparqlQueries,
        p \in BOOLEAN, o \in EndpointOutcomes(Prezs)}

\* accepts.split(",")[0].split(";")[0] (lines 168, 211)
TopAccept(accepts) == accepts[1][1]

\* "CONSTRUCT" in query or "DESCRIBE" in query (lines 174, 219)
IsGraphQuery(q) == \E k \in 1..Len(q) : q[k] \in {"CONSTRUCT", "DESCRIBE"}

\* sparql_endpoint_query_multiple: the results of the endpoints that
\* answered, and one error for each endpoint that failed
SparqlEndpointQueryMultiple(q, outcome) ==
    <<CombineSearchResults(FederatedResults(Prezs, outcome, q)),
      [k \in 1..Cardinality(Failed(outcome)) |->
          [code |-> 500, prez |-> Prezs[CHOOSE j \in Failed(outcome) :
                                      Cardinality({i \in Failed(outcome) : i < j}) = k - 1],
           message |-> "failed"]]>>

HttpResponse(kind, content, media_type) ==
    [kind |-> kind, content |-> content, media_type |-> media_type]

\* lines 175-202 and 220-243: the query is sent and its answer returned
SparqlAnswer(q, top_accept, allow_partial, outcome) ==
    LET sparql_result == SparqlEndpointQueryMultiple(q, outcome)
    IN IF Len(sparql_result[2]) > 0 /\ ~allow_partial
       THEN HttpResponse("raise", <<"SPARQL query error">>, "")
       ELSE IF IsGraphQuery(q)
            THEN HttpResponse("Response", sparql_result[1], top_accept)
            ELSE HttpResponse("JSONResponse", sparql_result[1],
                              "application/sparql-results+json")

ServiceDescription == HttpResponse("Response", <<"SPARQL service description">>, "")

\* sparql_get, lines 164-204
SparqlGet ==
    /\ sparql_args.some /\ ~sparql_response.some
    /\ sparql_args.v.method = "GET"
    /\ LET a == sparql_args.v
       IN sparql_response' =
            Some(IF ~a.accept.some THEN HttpResponse("None", <<>>, "")
                 ELSE IF TopAccept(a.accept.v) = "text/html"
                      THEN HttpResponse("TemplateResponse", <<"sparql.html">>, "text/html")
                 ELSE IF ~a.query.some THEN ServiceDescription
                 ELSE SparqlAnswer(a.query.v, TopAccept(a.accept.v),
                                   a.allow_partial, a.outcome))
    /\ UNCHANGED <<search_args, search_pc, endpoint_details, fed_s, retries, results,
                   template_context, search_error, attempts, sparql_args>>
    /\ UNCHANGED notfed

\* sparql_post, lines 207-245
SparqlPost ==
    /\ sparql_args.some /\ ~sparql_response.some
    /\ sparql_args.v.method = "POST"
    /\ LET a == sparql_args.v
       IN sparql_response' =
            Some(IF ~a.accept.some
                 THEN HttpResponse("raise", <<"AttributeError">>, "")
                 ELSE IF ~a.query.some THEN ServiceDescription
                 ELSE SparqlAnswer(a.query.v, TopAccept(a.accept.v),
                                   a.allow_partial, a.outcome))
    /\ UNCHANGED <<search_args, search_pc, endpoint_details, fed_s, retries, results,
                   template_context, search_error, attempts, sparql_args>>
    /\ UNCHANGED notfed

\* one request is served, a /search or a /sparql one
InitFed ==
    /\ request = [params |-> [profile |-> <<>>, mediatype |-> <<>>],
                  headers |-> [accept_profile |-> <<>>, accept |-> <<>>],
                  classes |-> <<"Child", "Base">>,
                  listing |-> FALSE]
    /\ InitNegotiation
    /\ InitDispatch
    /\ InitObjects
    /\ InitUpdate
    /\ InitGenerators
    /\ InitHeaders
    /\ InitSearchQuery
    /\ InitEmit
    /\ \/ /\ search_args \in {Some(a) : a \in SearchArgs}
          /\ search_pc = "start"
          /\ sparql_args = Nothing
       \/ /\ search_args = Nothing
          /\ search_pc = "idle"
          /\ sparql_args \in {Some(a) : a \in SparqlArgs}
    /\ endpoint_details = <<>>
    /\ fed_s = <<>>
    /\ retries = 0
    /\ results = Nothing
    /\ template_context = Nothing
    /\ search_error = NoError
    /\ attempts = <<>>
    /\ sparql_response = Nothing

SearchNext ==
    \/ SearchStart
    \/ FederatedSearchReturns
    \/ FederatedSearchRaises
    \/ LoopExit
    \/ MaxRetriesReached
    \/ RenderResults

NextFed ==
    \/ SearchNext
    \/ SparqlGet
    \/ SparqlPost

\* every request that is being served goes on: the event loop runs each
\* handler to its end
SpecFed == InitFed /\ [][NextFed]_vars /\ WF_vars(SearchNext)

(***************************************************************************)
(* The claims about the federated search.                                  *)
(***************************************************************************)
SearchEnded == search_pc \in {"rendered", "failed"}

AllRaised(n) == \A k \in 1..n : attempts[k].raised

\* at most 3 attempts; a call that returned is the last one; a rendered
\* search shows the combined results of that call and no error; a failed
\* search made 3 calls that all raised and rendered nothing
C11_Attempts ==
    /\ Len(attempts) <= 3
    /\ AllRaised(Len(attempts) - 1)
    /\ (search_pc = "rendered" /\ attempts # <<>>) =>
          /\ ~attempts[Len(attempts)].raised
          /\ search_error = NoError
          /\ results = Some(CombineSearchResults(
                 FederatedResults(endpoint_details, attempts[Len(attempts)].outcome,
                                  search_args.v.search.v)))
    /\ search_pc = "failed" =>
          /\ Len(attempts) = 3
          /\ AllRaised(3)
          /\ search_error = Raised("Exception", <<"Max retries reached">>)
          /\ results = Nothing /\ template_context = Nothing

\* C11: a failing federated search is attempted at most 3 times, and the
\* retry loop always ends: after the first attempt that succeeds, with the
\* combined results, no further attempt and no error, or after 3 failed
\* attempts with an error and nothing rendered.
C11_BoundedRetry == [](C11_Attempts) /\ ((search_pc = "start") ~> SearchEnded)

\* three attempts have failed and the search ended with the error
C11_Witness ==
    /\ search_pc = "failed"
    /\ Len(attempts) = 3
    /\ search_error.type = "Exception"

LastOutcome == attempts[Len(attempts)].outcome

PartlyFailed(outcome) == Succeeded(outcome) # {} /\ Failed(outcome) # {}

\* C12: when an endpoint has answered and another has failed, also after
\* the retries are used up, the response holds the results of the endpoints
\* that answered and the list of the endpoints' failures; nothing is
\* discarded and nothing is raised.
C12_PartialResultsPreserved ==
    /\ (SearchEnded /\ attempts # <<>> /\ PartlyFailed(LastOutcome)) =>
          /\ search_pc = "rendered"
          /\ template_context.v.results =
                CombineSearchResults(FederatedResults(endpoint_details, LastOutcome,
                                                      search_args.v.search.v))
          /\ "failures" \in DOMAIN template_context.v
    /\ (/\ sparql_response.some
        /\ sparql_response.v.kind \in {"raise", "Response", "JSONResponse"}
        /\ sparql_args.v.accept.some /\ sparql_args.v.query.some
        /\ PartlyFailed(sparql_args.v.outcome)) =>
          /\ sparql_response.v.kind # "raise"
          /\ sparql_response.v.content =
                SparqlEndpointQueryMultiple(sparql_args.v.query.v,
                                            sparql_args.v.outcome)[1]
          /\ "failures" \in DOMAIN sparql_response.v

(***************************************************************************)
(* The weighted search query of prez/sparql/search_query.py (SearchQuery), *)
(* and what its text means when a triple store evaluates it.  A text is    *)
(* held as the sequence of its characters; Str gives its string.  The      *)
(* characters of the model are letters and digits, which a regular         *)
(* expression matches literally.                                           *)
(***************************************************************************)
MaxTriples == 2   \* triples in the store a search query is run on

DefaultLimit == 10
DefaultOffset == 0

\* LCASE, and the "i" flag of REGEX, over the characters of the model
LowerCase(text) == [k \in 1..Len(text) |-> IF text[k] = "C" THEN "c" ELSE text[k]]

\* the string of a text
RECURSIVE Str(_)
Str(text) == IF text = <<>> THEN "" ELSE Head(text) \o Str(Tail(text))

Texts == {<<"c">>, <<"C">>, <<"c", "1">>, <<"1", "c">>, <<"1">>}
Terms == {<<"c">>, <<"C">>, <<"1">>}
FocusNodes == {"urn:a"}
Predicates == {"urn:p", "urn:q"}
PredVals == {<<"urn:p">>, <<"urn:p", "urn:q">>, <<"urn:p", "urn:p">>}

Triple(subject, predicate, object) ==
    [focus_node |-> subject, pred |-> predicate, match |-> object]

TripleStores ==
    {S \in SUBSET {Triple(f, p, m) : f \in FocusNodes, p \in Predicates, m \in Texts} :
        Cardinality(S) <= MaxTriples}

\* a pattern of a query, held by its kind and its text
Pattern(kind, content) == [kind |-> kind, content |-> content]
NoTriplesBlock == [some |-> FALSE, content |-> ""]
TriplesBlock(content) == [some |-> TRUE, content |-> content]

\* SubSelectString(select_string=...)
SubSelectString(select_string) ==
    [class |-> "SubSelectString", select_string |-> select_string,
     triples_block |-> NoTriplesBlock, graph_patterns_or_triples_blocks |-> <<>>]

\* SubSelect(...): its where_clause.group_graph_pattern.content
SubSelect(triples_block, graph_patterns_or_triples_blocks) ==
    [class |-> "SubSelect", select_string |-> "",
     triples_block |-> triples_block,
     graph_patterns_or_triples_blocks |-> graph_patterns_or_triples_blocks]

\* the additional_ss a caller passes: None (line 59) or a sub-select
AdditionalSubSelects ==
    {Nothing, Some(SubSelectString("SELECT * {?focus_node a owl:Class}"))}
    \cup {Some(SubSelect(tb, ps)) :
            tb \in {NoTriplesBlock, TriplesBlock("?focus_node a owl:Class .")},
            ps \in {<<>>,
                    <<Pattern("GraphPatternNotTriples", "FILTER(?focus_node != <urn:x>)")>>,
                    <<Pattern("GraphPatternNotTriples", "FILTER(?focus_node != <urn:x>)"),
                      Pattern("GraphPatternNotTriples",
                              "OPTIONAL {?focus_node rdfs:label ?label}")>>}}

SearchQueries ==
    {[search_term |-> t, pred_vals |-> pv, limit |-> l, offset |-> o, store |-> st,
      additional_ss |-> ss] :
        t \in Terms, pv \in PredVals, l \in {1, DefaultLimit},
        o \in {DefaultOffset, 1}, st \in TripleStores, ss \in AdditionalSubSelects}

\* the second branch without its anchor
inner_select_vars_unanchored ==
    <<[weight_val |-> 100, function |-> "LCASE", prefix |-> <<>>, case_insensitive |-> FALSE],
      [weight_val |-> 20, function |-> "REGEX", prefix |-> <<>>, case_insensitive |-> TRUE],
      [weight_val |-> 10, function |-> "REGEX", prefix |-> <<>>, case_insensitive |-> TRUE]>>

\* SearchQuery.inner_select_vars, lines 90-111, in the order of the dict
inner_select_vars ==
    <<[weight_val |-> 100, function |-> "LCASE", prefix |-> <<>>, case_insensitive |-> FALSE],
      [weight_val |-> 20, function |-> "REGEX", prefix |-> <<"^">>, case_insensitive |-> TRUE],
      [weight_val |-> 10, function |-> "REGEX", prefix |-> <<>>, case_insensitive |-> TRUE]>>

\* the where clause's triples block alone, its other patterns left out
AdditionalPatterns_triples_only(additional_ss) ==
    IF ~additional_ss.some THEN <<>>
    ELSE IF additional_ss.v.class = "SubSelectString"
    THEN <<Pattern("GroupOrUnionGraphPattern", additional_ss.v.select_string)>>
    ELSE IF additional_ss.v.triples_block.some
         THEN <<Pattern("TriplesBlock", additional_ss.v.triples_block.content)>>
         ELSE <<>>

\* lines 311-327: the patterns add_pattern appends to a branch for the
\* additional_ss, { select_string } for a SubSelectString, the triples block
\* and the patterns of the where clause for a SubSelect
AdditionalPatterns(additional_ss) ==
    IF ~additional_ss.some THEN <<>>
    ELSE IF additional_ss.v.class = "SubSelectString"
    THEN <<Pattern("GroupOrUnionGraphPattern", additional_ss.v.select_string)>>
    ELSE (IF additional_ss.v.triples_block.some
          THEN <<Pattern("TriplesBlock", additional_ss.v.triples_block.content)>>
          ELSE <<>>)
         \o additional_ss.v.graph_patterns_or_triples_blocks

\* create_inner_ggp, lines 293-366: { ?focus_node ?pred ?match .
\* additional patterns BIND(weight_val AS ?w) FILTER(...) } with the filter
\* of the function
CreateInnerGgp(var_dict, search_term, additional_ss) ==
    [triple |-> <<"focus_node", "pred", "match">>,
     additional |-> AdditionalPatterns(additional_ss),
     bind_w |-> var_dict.weight_val,
     filter |-> [function |-> var_dict.function,
                 pattern |-> var_dict.prefix \o search_term,
                 flags |-> IF var_dict.function = "REGEX" /\ var_dict.case_insensitive
                           THEN "i" ELSE ""]]

\* create_union_of_inner_ggps, lines 285-291
CreateUnionOfInnerGgps(search_term, additional_ss) ==
    [k \in 1..Len(inner_select_vars) |->
        CreateInnerGgp(inner_select_vars[k], search_term, additional_ss)]

\* create_outer_select_clause, lines 181-184: CONCAT(STR(?focus_node),
\* STR(?pred), STR(?match), STR(?weight))
HashOf == <<"focus_node", "pred", "match", "weight">>

\* create_construct_query, lines 117-127, with the sub-selects it nests
CreateConstructQuery(args) ==
    [values |-> args.pred_vals,                              \* lines 268-272
     union |-> CreateUnionOfInnerGgps(args.search_term, args.additional_ss),
     inner_where |-> <<"InlineData", "GroupOrUnionGraphPattern">>,  \* lines 277-279
     sum_of |-> "w",                                         \* lines 250-255
     group_by |-> <<"focus_node", "pred", "match">>,         \* lines 239-242
     hash_of |-> HashOf,
     order_by |-> [var |-> "weight", direction |-> "DESC"],  \* lines 219-220
     limit |-> args.limit,                                   \* lines 221-223
     offset |-> args.offset]

\* REGEX(text, pattern, flags) for a pattern of literal characters behind an
\* optional ^
Regex(text, pattern, flags) ==
    LET t == IF flags = "i" THEN LowerCase(text) ELSE text
        p == IF flags = "i" THEN LowerCase(pattern) ELSE pattern
        anchored == p # <<>> /\ Head(p) = "^"
        body == IF anchored THEN Tail(p) ELSE p
        at(i) == i + Len(body) <= Len(t) /\ SubSeq(t, i + 1, i + Len(body)) = body
    IN IF anchored THEN at(0) ELSE \E i \in 0..Len(t) : at(i)

\* the FILTER of one branch
FilterPasses(filter, text) ==
    IF filter.function = "LCASE" THEN LowerCase(text) = filter.pattern
    ELSE Regex(text, filter.pattern, filter.flags)

\* VALUES ?pred { ... }: one solution for each time the predicate is listed
Occurrences(values, predicate) ==
    Cardinality({k \in 1..Len(values) : values[k] = predicate})

\* SUM(?w) over the solutions the branches of the union give for one triple
RECURSIVE SumOfBranches(_, _, _)
SumOfBranches(union, values, triple) ==
    IF union = <<>> THEN 0
    ELSE (IF FilterPasses(Head(union).filter, triple.match)
          THEN Occurrences(values, triple.pred) * Head(union).bind_w ELSE 0)
         + SumOfBranches(Tail(union), values, triple)

\* a triple has a solution in some branch
Matched(q, triple) ==
    /\ Occurrences(q.values, triple.pred) > 0
    /\ \E k \in 1..Len(q.union) : FilterPasses(q.union[k].filter, triple.match)

\* the inner sub-select: one solution for each group of ?focus_node ?pred ?match
InnerSelect(q, store) ==
    {[focus_node |-> t.focus_node, pred |-> t.pred, match |-> t.match,
      weight |-> SumOfBranches(q.union, q.values, t)] :
        t \in {x \in store : Matched(q, x)}}

\* STR of the value a variable is bound to
StrOf(row, var) ==
    CASE var = "focus_node" -> row.focus_node
      [] var = "pred" -> row.pred
      [] var = "match" -> Str(row.match)
      [] var = "weight" -> ToString(row.weight)

\* CONCAT of the STRs
RECURSIVE Concat(_, _)
Concat(row, parts) ==
    IF parts = <<>> THEN "" ELSE StrOf(row, Head(parts)) \o Concat(row, Tail(parts))

\* SHA256, which gives equal digests to equal texts only
Sha256(text) == "sha256(" \o text \o ")"

\* (URI(CONCAT("urn:hash:", SHA256(CONCAT(...)))) AS ?hashID), lines 185-205
WithHashId(q, row) ==
    [focus_node |-> row.focus_node, pred |-> row.pred, match |-> row.match,
     weight |-> row.weight,
     hashID |-> "urn:hash:" \o Sha256(Concat(row, q.hash_of))]

\* ORDER BY DESC(?weight) LIMIT limit OFFSET offset: equal weights come in
\* any order
OuterSelect(q, grouped) ==
    {SubSeq(order, q.offset + 1,
            IF q.offset + q.limit < Len(order) THEN q.offset + q.limit ELSE Len(order)) :
        order \in {o \in Perms({WithHashId(q, r) : r \in grouped}) :
                      \A i, j \in 1..Len(o) : i < j => o[i].weight >= o[j].weight}}

\* SearchQuery.render, lines 113-115
CreateSearchQuery ==
    /\ sq_args.some /\ ~sq_query.some
    /\ sq_query' = Some(CreateConstructQuery(sq_args.v))
    /\ UNCHANGED <<sq_args, sq_grouped, sq_rows>>
    /\ UNCHANGED notsq

\* the store evaluates the inner sub-select (lines 227-233); the answer is
\* modelled for a query without additional patterns, which may hold any
\* pattern of the caller
EvaluateInnerSelect ==
    /\ sq_query.some /\ ~sq_grouped.some
    /\ ~sq_args.v.additional_ss.some
    /\ sq_grouped' = Some(InnerSelect(sq_query.v, sq_args.v.store))
    /\ UNCHANGED <<sq_args, sq_query, sq_rows>>
    /\ UNCHANGED notsq

\* the store evaluates the outer sub-select (lines 169-175)
EvaluateOuterSelect ==
    /\ sq_grouped.some /\ ~sq_rows.some
    /\ \E answer \in OuterSelect(sq_query.v, sq_grouped.v) : sq_rows' = Some(answer)
    /\ UNCHANGED <<sq_args, sq_query, sq_grouped>>
    /\ UNCHANGED notsq

InitSq ==
    /\ request = [params |-> [profile |-> <<>>, mediatype |-> <<>>],
                  headers |-> [accept_profile |-> <<>>, accept |-> <<>>],
                  classes |-> <<"Child", "Base">>,
                  listing |-> FALSE]
    /\ InitNegotiation
    /\ InitDispatch
    /\ InitObjects
    /\ InitUpdate
    /\ InitGenerators
    /\ InitHeaders
    /\ InitFederation
    /\ InitEmit
    /\ sq_args \in {Some(a) : a \in SearchQueries}
    /\ sq_query = Nothing
    /\ sq_grouped = Nothing
    /\ sq_rows = Nothing

NextSq ==
    \/ CreateSearchQuery
    \/ EvaluateInnerSelect
    \/ EvaluateOuterSelect

SpecSq == InitSq /\ [][NextSq]_vars

(***************************************************************************)
(* The claims about the search query.                                      *)
(***************************************************************************)
\* the three strategies, as the filters of the query test them
ExactMatch(text, term) == LowerCase(text) = term
PrefixMatch(text, term) ==
    Len(term) <= Len(text) /\ LowerCase(SubSeq(text, 1, Len(term))) = LowerCase(term)
SubstringMatch(text, term) ==
    \E i \in 0..(Len(text) - Len(term)) :
        LowerCase(SubSeq(text, i + 1, i + Len(term))) = LowerCase(term)

StrategySum(text, term) ==
    (IF ExactMatch(text, term) THEN 100 ELSE 0)
    + (IF PrefixMatch(text, term) THEN 20 ELSE 0)
    + (IF SubstringMatch(text, term) THEN 10 ELSE 0)

RowsOf(triple) ==
    {r \in sq_grouped.v : /\ r.focus_node = triple.focus_node
                          /\ r.pred = triple.pred
                          /\ r.match = triple.match}

Listed(triple) == Occurrences(sq_args.v.pred_vals, triple.pred)

TupleOf(row) == <<row.focus_node, row.pred, row.match, row.weight>>

\* C14: the identifier is a function of the (subject, predicate, text,
\* summed weight) tuple that is injective up to the hash: equal tuples have
\* equal identifiers, and two distinct tuples never give the hash the same
\* input string.
C14_IdentifierInjective ==
    sq_rows.some =>
        \A i, j \in 1..Len(sq_rows.v) :
            (TupleOf(sq_rows.v[i]) = TupleOf(sq_rows.v[j]))
                <=> (sq_rows.v[i].hashID = sq_rows.v[j].hashID)

(***************************************************************************)
(* The places where a text of the request is written into query text:      *)
(* the profile token (_resolve_token), a requested media type              *)
(* (_generate_mediatype_if_statements) and the search term                 *)
(* (SearchQuery.create_inner_ggp).  Query text is held here as the         *)
(* sequence of its characters, a stretch of fixed syntax that holds no     *)
(* quote counting as one.                                                  *)
(***************************************************************************)
MaxValueLen == 2   \* characters of a text of the request

Quote == "\""
Backslash == "\\"
Newline == "\n"

ValueChars == {"a", Quote, Backslash, Newline}

RequestValues == ListsOf(ValueChars, MaxValueLen) \ {<<>>}

\* _resolve_token, lines 107-122: the template with <token> replaced
ResolveTokenQuery(token) ==
    <<"SELECT ?profile WHERE { ?profile a prof:Profile . ?profile dcterms:identifier ?o . FILTER(?o=",
      Quote>> \o token \o <<Quote, "^^xsd:token) }">>

\* _generate_mediatype_if_statements, lines 296-304, for one requested media
\* type of the default weight
MediatypeIfStatements(mediatype) ==
    <<"BIND( IF(?format=", Quote>> \o mediatype
        \o <<Quote, ", ", Quote, "1.0", Quote, ", ", Quote, Quote, ") AS ?req_format)">>

\* the characters of a literal's value as its rendering writes them
RECURSIVE Escaped(_)
Escaped(value) ==
    IF value = <<>> THEN <<>>
    ELSE (CASE Head(value) = Quote -> <<Backslash, Quote>>
            [] Head(value) = Backslash -> <<Backslash, Backslash>>
            [] Head(value) = Newline -> <<Backslash, "n">>
            [] OTHER -> <<Head(value)>>) \o Escaped(Tail(value))

\* RDFLiteral.render of temp/grammar.py
RenderRDFLiteral(value) == <<Quote>> \o Escaped(value) \o <<Quote>>

\* create_inner_ggp, lines 338-354, for the prefix branch:
\* FILTER (REGEX(?match, "^term", "i"))
SearchFilter(search_term) ==
    <<"FILTER (REGEX(?match, ">> \o RenderRDFLiteral(<<"^">> \o search_term)
        \o <<", ">> \o RenderRDFLiteral(<<"i">>) \o <<"))">>

Places == {"token", "mediatype", "search_term"}

\* _tupilize, lines 134-144: the entry is not a URI and is taken for a token
EmitResolveToken ==
    /\ inj_args.some /\ ~inj_query.some
    /\ inj_args.v.place = "token"
    /\ inj_query' = Some(ResolveTokenQuery(inj_args.v.value))
    /\ UNCHANGED inj_args
    /\ UNCHANGED notinj

\* _compose_select_query, line 275
EmitMediatypeIfStatements ==
    /\ inj_args.some /\ ~inj_query.some
    /\ inj_args.v.place = "mediatype"
    /\ inj_query' = Some(MediatypeIfStatements(inj_args.v.value))
    /\ UNCHANGED inj_args
    /\ UNCHANGED notinj

\* SearchQuery.render of the filter of a branch
EmitSearchFilter ==
    /\ inj_args.some /\ ~inj_query.some
    /\ inj_args.v.place = "search_term"
    /\ inj_query' = Some(SearchFilter(inj_args.v.value))
    /\ UNCHANGED inj_args
    /\ UNCHANGED notinj

InitInj ==
    /\ request = [params |-> [profile |-> <<>>, mediatype |-> <<>>],
                  headers |-> [accept_profile |-> <<>>, accept |-> <<>>],
                  classes |-> <<"Child", "Base">>,
                  listing |-> FALSE]
    /\ InitNegotiation
    /\ InitDispatch
    /\ InitObjects
    /\ InitUpdate
    /\ InitGenerators
    /\ InitHeaders
    /\ InitFederation
    /\ InitSearchQuery
    /\ inj_args \in {Some([place |-> p, value |-> v]) : p \in Places, v \in RequestValues}
    /\ inj_query = Nothing

NextInj ==
    \/ EmitResolveToken
    \/ EmitMediatypeIfStatements
    \/ EmitSearchFilter

SpecInj == InitInj /\ [][NextInj]_vars

(***************************************************************************)
(* The claim about injection.                                              *)
(***************************************************************************)
\* the escapes SPARQL allows inside a quoted string (ECHAR)
EscapeChars == {Quote, Backslash, "n", "t", "r", "b", "f", "'"}

\* the structure of a query text as a SPARQL parser reads it: its syntax,
\* with "LITERAL" for each quoted string (STRING_LITERAL2), "BROKEN" where
\* a string holds a raw newline or an escape SPARQL does not know, and
\* "UNTERMINATED" for a string the text ends in
RECURSIVE Structure(_, _)
Structure(text, in_literal) ==
    IF text = <<>> THEN IF in_literal THEN <<"UNTERMINATED">> ELSE <<>>
    ELSE IF ~in_literal
         THEN IF Head(text) = Quote THEN Structure(Tail(text), TRUE)
              ELSE <<Head(text)>> \o Structure(Tail(text), FALSE)
         ELSE CASE Head(text) = Quote -> <<"LITERAL">> \o Structure(Tail(text), FALSE)
                [] Head(text) = Newline -> <<"BROKEN">>
                [] Head(text) = Backslash ->
                      IF Len(text) >= 2 /\ text[2] \in EscapeChars
                      THEN Structure(Tail(Tail(text)), TRUE)
                      ELSE <<"BROKEN">>
                [] OTHER -> Structure(Tail(text), TRUE)

\* the text the same place emits for a harmless value
HarmlessQuery(place) ==
    CASE place = "token" -> ResolveTokenQuery(<<"a">>)
      [] place = "mediatype" -> MediatypeIfStatements(<<"a">>)
      [] place = "search_term" -> SearchFilter(<<"a">>)

\* C15: a text of the request (search term, profile token, requested media
\* type) reaches the query only inside a properly escaped literal: with a
\* double quote, a backslash or a newline in it, the emitted query has the
\* structure it has for a harmless value.
C15_InjectionSafe ==
    inj_query.some =>
        Structure(inj_query.v, FALSE) = Structure(HarmlessQuery(inj_args.v.place), FALSE)

(***************************************************************************)
(* The claims about the predicates of the item query.                      *)
(***************************************************************************)
\* the node shapes of the profile that target the class of the item
RelevantShapes ==
    {sh \in item_args.v.cache : /\ sh.profile = item_args.v.profile.uri
                                /\ sh.targetClass = item_args.v.item.general_class}

\* the lines of the VALUES clause of a variable
ValuesOf(text, var) ==
    {text[k] : k \in {j \in 1..Len(text) :
        \E start \in 1..(j - 1) :
            /\ text[start] = "VALUES " \o var \o "{"
            /\ \A i \in (start + 1)..j : text[i] # "}"}}

\* C16: a predicate a node shape of the class lists both as included
\* (sh:path) and as excluded (dash:hidden) is absent from the VALUES ?p
\* clause of the item query.
C16_ExcludeWins ==
    item_query.some =>
        \A sh \in RelevantShapes :
            \A p \in sh.path \cap sh.hidden :
                Bracket(p) \notin ValuesOf(item_query.v.where, "?p")

\* the item query with no part that restricts or extends it
UnrestrictedQuery(item, profile) ==
    [construct |->
        <<"CONSTRUCT {", Bracket(item.uri) \o " ?p ?o1 .">>
        \o GenerateBnodeConstruct(BnodeDepth(profile)) \o <<"}">>,
     where |->
        <<"WHERE {", "{", Bracket(item.uri) \o " ?p ?o1 .">>
        \o GenerateBnodeSelect(BnodeDepth(profile)) \o <<"}", "}">>]

AllEmptyLists ==
    [includes |-> Some(<<>>), excludes |-> Some(<<>>), inverses |-> Some(<<>>),
     sequences |-> Some(<<>>), large_outbound |-> Some(<<>>)]

Unrestricted ==
    LET W == item_query.v.where
        T == item_query.v.construct
        uri == Bracket(item_args.v.item.uri)
    IN  /\ item_query.v = UnrestrictedQuery(item_args.v.item, item_args.v.profile)
        /\ LinesOf(W, "VALUES ?p{") = {}
        /\ LinesOf(W, "VALUES ?inbound_p{") = {}
        /\ LinesOf(W, "?s ?inbound_p " \o uri) = {}
        /\ LinesOf(T, "?s ?inbound_p " \o uri \o " .") = {}
        /\ LinesOf(W, "UNION") = {} /\ LinesOf(W, "SELECT * {") = {}
        /\ \A k \in 1..Len(W) : W[k] # uri \o " <ex:a> ?seq_o1 ."
        /\ \A k \in 1..Len(T) : T[k] # uri \o " <ex:a> ?seq_o1 ."

\* C17 as claimed: with no node shape of the profile targeting the class,
\* the predicate resolver returns all-empty lists, and the item query is
\* the unrestricted one.
C17_NoShapeEmptyLists ==
    (item_query.some /\ RelevantShapes = {}) =>
        /\ item_predicates.v = AllEmptyLists
        /\ Unrestricted

\* C17 amended: with no node shape of the profile targeting the class
\* (exact match), the predicate resolver returns five None values, no
\* lists, without raising, and the item query is the unrestricted one: no
\* VALUES ?p, no VALUES ?inbound_p, no sequence pattern, no inbound pattern
\* and no large-outbound sub-select.
C17_NoShapeUnrestricted ==
    (item_query.some /\ RelevantShapes = {}) =>
        /\ item_predicates.v = NonePredicates
        /\ \A f \in DOMAIN item_predicates.v : item_predicates.v[f] = Nothing
        /\ Unrestricted

\* an item of a class the only node shape, which names predicates of every
\* kind, does not target
C17_Witness ==
    /\ item_query.some
    /\ RelevantShapes = {}
    /\ \E sh \in item_args.v.cache :
          /\ sh.profile = item_args.v.profile.uri
          /\ sh.targetClass # item_args.v.item.general_class
          /\ sh.path # {} /\ sh.inversePath # {}
          /\ sh.sequencePath # {} /\ sh.largeOutboundLinks # {}

(***************************************************************************)
(* The claims about the response headers.                                  *)
(***************************************************************************)
\* the (profile, mediatype) combination of an available entry is the one
\* selected
IsSelectedCombination(pmt) ==
    pmt.profile = selected.v.profile /\ pmt.mediatype = selected.v.mediatype

\* C18: in the media type links every available (profile, mediatype)
\* combination is labelled self or alternate, self exactly when it is the
\* selected combination; so some link is self, and no link URL is given
\* both as self and as alternate.
C18_SelfOrAlternate ==
    headers.some =>
        LET links == headers.v.mediatype_links
        IN  /\ Len(links) = Len(available.v)
            /\ \A i \in 1..Len(links) :
                  /\ links[i].rel \in {"self", "alternate"}
                  /\ links[i].rel = "self" <=> IsSelectedCombination(available.v[i])
            /\ \E i \in 1..Len(links) : links[i].rel = "self"
            /\ \A i, j \in 1..Len(links) :
                  links[i].url = links[j].url => links[i].rel = links[j].rel

\* C19: the Content-Type header is the media type of the selected
\* combination; a request for a profile and for text/turtle that finds one
\* available combination, of that profile and media type, selects it and
\* gets Content-Type text/turtle.
C19_ContentType ==
    headers.some =>
        /\ headers.v.content_type = selected.v.mediatype
        /\ (/\ request.params.profile = << <<"<P1>">> >>
            /\ request.params.mediatype = << <<"text/turtle">> >>
            /\ Len(available.v) = 1
            /\ available.v[1].profile = "P1"
            /\ available.v[1].mediatype = "text/turtle") =>
               /\ selected.v = available.v[1]
               /\ headers.v.content_type = "text/turtle"

\* the request of the example, answered with the one matching combination
C19_Witness ==
    /\ headers.some
    /\ request.params.profile = << <<"<P1>">> >>
    /\ request.params.mediatype = << <<"text/turtle">> >>
    /\ Len(available.v) = 1
    /\ selected.v.profile = "P1"
    /\ headers.v.content_type = "text/turtle"

ParsedFrom(parsed, raw, lookups) ==
    /\ Len(parsed) = Len(raw)
    /\ \A j \in 1..Len(raw) :
          \E i \in 1..Len(parsed) :
              /\ parsed[i].w = TupilizeWeight(raw[j])
              /\ (~lookups \/ LooksLikeUri(raw[j][1])) => parsed[i].name = raw[j][1]

\* C21: each requested list is parsed from the query parameter when that is
\* present and non-empty, and the header is then ignored; it is parsed from
\* the header only when the parameter is absent or empty; it is None when
\* both are absent.
C21_ParameterPreferred ==
    /\ requested_profiles.some =>
          IF request.params.profile # <<>>
          THEN ParsedFrom(requested_profiles.v, request.params.profile, TRUE)
          ELSE /\ request.headers.accept_profile # <<>>
               /\ ParsedFrom(requested_profiles.v, request.headers.accept_profile, TRUE)
    /\ requested_mediatypes.some =>
          IF request.params.mediatype # <<>>
          THEN ParsedFrom(requested_mediatypes.v, request.params.mediatype, FALSE)
          ELSE /\ request.headers.accept # <<>>
               /\ ParsedFrom(requested_mediatypes.v, request.headers.accept, FALSE)
    /\ pc \in {"compose", "awaiting", "done"} =>
          /\ requested_profiles.some =
                (request.params.profile # <<>> \/ request.headers.accept_profile # <<>>)
          /\ requested_mediatypes.some =
                (request.params.mediatype # <<>> \/ request.headers.accept # <<>>)

\* the media types came from the parameter though an accept header was sent,
\* and the profiles came from the accept-profile header
C21_Witness ==
    /\ pc = "done"
    /\ request.params.mediatype # <<>>
    /\ request.headers.accept # <<>>
    /\ request.params.mediatype # request.headers.accept
    /\ requested_mediatypes.some
    /\ request.params.profile = <<>>
    /\ requested_profiles.some

\* the branch of weight 100 gave a solution for the triple: the other two
\* branches together give less than 100 for every listing of the predicate
\* of the model
ExactBranchMatched(triple) ==
    \E r \in RowsOf(triple) : r.weight >= 100 * Listed(triple)

\* C22: the branch of weight 100 matches a text exactly when the text and the
\* search term are equal ignoring letter case, whatever the case of the
\* letters of the term.
C22_ExactIgnoresCase ==
    sq_grouped.some =>
        \A t \in sq_args.v.store :
            Listed(t) > 0 =>
                (ExactBranchMatched(t) <=>
                    LowerCase(t.match) = LowerCase(sq_args.v.search_term))

\* a pattern is among those of a branch
InBranch(pattern, branch) ==
    \E i \in 1..Len(branch.additional) : branch.additional[i] = pattern

\* what a branch has to hold of the sub-select: the sub-select itself for a
\* SubSelectString, the triples block and every pattern of its where clause
\* for a SubSelect
PatternsOf(ss) ==
    IF ss.class = "SubSelectString"
    THEN {Pattern("GroupOrUnionGraphPattern", ss.select_string)}
    ELSE (IF ss.triples_block.some
          THEN {Pattern("TriplesBlock", ss.triples_block.content)} ELSE {})
         \cup {ss.graph_patterns_or_triples_blocks[i] :
                 i \in 1..Len(ss.graph_patterns_or_triples_blocks)}

C23_Merged ==
    sq_query.some =>
        LET ss == sq_args.v.additional_ss
        IN  /\ \A k \in 1..Len(sq_query.v.union) :
                  LET branch == sq_query.v.union[k]
                  IN  /\ branch.triple = <<"focus_node", "pred", "match">>
                      /\ IF ss.some
                         THEN \A p \in PatternsOf(ss.v) : InBranch(p, branch)
                         ELSE branch.additional = <<>>
            /\ Len(sq_query.v.union) = 3
            /\ sq_query.v.inner_where = <<"InlineData", "GroupOrUnionGraphPattern">>

\* C23: a supplied additional sub-pattern is in each of the three union
\* branches, next to the ?focus_node ?pred ?match triple, and not around the
\* query; without one no branch holds additional patterns; compiling leaves
\* the supplied sub-pattern as it was.
C23_MergedIntoBranches ==
    /\ [](C23_Merged)
    /\ [][sq_args' = sq_args]_vars

\* a query compiled with a SubSelect that has a triples block and two patterns
C23_Witness ==
    /\ sq_query.some
    /\ sq_args.v.additional_ss.some
    /\ sq_args.v.additional_ss.v.class = "SubSelect"
    /\ sq_args.v.additional_ss.v.triples_block.some
    /\ Len(sq_args.v.additional_ss.v.graph_patterns_or_triples_blocks) = 2
    /\ Len(sq_query.v.union[3].additional) = 3

(***************************************************************************)
(* The claim about the label of a listed item.                             *)
(***************************************************************************)
\* the value of the first of the predicates, in their order, that has one
RECURSIVE FirstLabel(_, _)
FirstLabel(store, predicates) ==
    IF predicates = <<>> THEN ""
    ELSE IF store[Head(predicates)] # "" THEN store[Head(predicates)]
    ELSE FirstLabel(store, Tail(predicates))

\* C24: the label a listed item is given is the value of the first of
\* rdfs:label, dcterms:title, skos:prefLabel that has a value, and no other:
\* an item with an rdfs:label and a dcterms:title is given the rdfs:label
\* value only.
C24_LabelFallback ==
    listing_answer.some =>
        \A label \in listing_answer.v.labels :
            label = FirstLabel(listing_answer.v.store, LabelPredicates)

(***************************************************************************)
(* PUT /update-profile/{profile_name} (prez/routers/configuration.py).     *)
(* A graph is held as the set of its triples; the triples of the profile   *)
(* named and those of the body are taken from two small pools.             *)
(***************************************************************************)
MaxProfileTriples == 2   \* triples of the profile in the cache, and new ones of a body

\* the triples the cache may hold of the profile named
OldTriples == {"old" \o ToString(i) : i \in 1..MaxProfileTriples}
\* the triples a body may hold: new ones, and one the old profile has too
BodyTriples == {"new" \o ToString(i) : i \in 1..MaxProfileTriples} \cup {"old1"}
\* the triples of the other profiles of the cache
OtherTriples == {"other1"}

\* a body that Graph().parse rejects, and the graph of one it accepts
Unparsable == [parses |-> FALSE, graph |-> {}]
Turtle(graph) == [parses |-> TRUE, graph |-> graph]

UpdateRequests ==
    {[profile_name |-> "prez:ExProf", profile_update |-> body,
      before |-> [cache |-> OtherTriples \cup old, store |-> old]] :
        body \in {Unparsable} \cup {Turtle(g) : g \in (SUBSET BodyTriples) \ {{}}},
        old \in SUBSET OldTriples}

\* lines 40-44: the body is parsed
ParseProfile ==
    /\ update_pc = "start"
    /\ IF update_args.v.profile_update.parses
       THEN /\ new_profile_g' = update_args.v.profile_update.graph
            /\ update_pc' = "cbd"
            /\ UNCHANGED update_response
       ELSE /\ update_response' = 400
            /\ update_pc' = "done"
            /\ UNCHANGED new_profile_g
    /\ UNCHANGED <<update_args, profiles_graph_cache, pyoxi_store, old_profile>>
    /\ UNCHANGED notupd

\* the triples of the profile in the cache
Cbd(cache) == cache \cap OldTriples

\* lines 45-50: old_profile = profiles_graph_cache.cbd(profile_uri); for a
\* profile the cache does not hold, cbd raises the KeyError the handler
\* catches
CbdOfProfile ==
    /\ update_pc = "cbd"
    /\ IF Cbd(profiles_graph_cache) = {}
       THEN /\ update_response' = 404
            /\ update_pc' = "done"
            /\ UNCHANGED old_profile
       ELSE /\ old_profile' = Cbd(profiles_graph_cache)
            /\ update_pc' = "remove"
            /\ UNCHANGED update_response
    /\ UNCHANGED <<update_args, profiles_graph_cache, pyoxi_store, new_profile_g>>
    /\ UNCHANGED notupd

\* lines 51-52: one turn of for t in old_profile: profiles_graph_cache.remove(t)
RemoveFromCache ==
    /\ update_pc = "remove"
    /\ \E t \in old_profile :
          /\ profiles_graph_cache' = profiles_graph_cache \ {t}
          /\ old_profile' = old_profile \ {t}
    /\ UNCHANGED <<update_args, update_pc, pyoxi_store, new_profile_g, update_response>>
    /\ UNCHANGED notupd

\* line 55: remove_graph empties the named graph of the profile
RemoveGraph ==
    /\ update_pc = "remove"
    /\ old_profile = {}
    /\ pyoxi_store' = {}
    /\ update_pc' = "add"
    /\ UNCHANGED <<update_args, profiles_graph_cache, old_profile, new_profile_g,
                   update_response>>
    /\ UNCHANGED notupd

\* lines 56-57: remove_graph raises
RemoveGraphRaises ==
    /\ update_pc = "remove"
    /\ old_profile = {}
    /\ update_response' = 500
    /\ update_pc' = "done"
    /\ UNCHANGED <<update_args, profiles_graph_cache, pyoxi_store, old_profile,
                   new_profile_g>>
    /\ UNCHANGED notupd

\* lines 58-59: one turn of for t in new_profile_g: profiles_graph_cache.add(t)
AddToCache ==
    /\ update_pc = "add"
    /\ \E t \in new_profile_g :
          /\ profiles_graph_cache' = profiles_graph_cache \cup {t}
          /\ new_profile_g' = new_profile_g \ {t}
    /\ UNCHANGED <<update_args, update_pc, pyoxi_store, old_profile, update_response>>
    /\ UNCHANGED notupd

\* lines 60-65: the new triples are loaded into the named graph
LoadProfile ==
    /\ update_pc = "add"
    /\ new_profile_g = {}
    /\ pyoxi_store' = pyoxi_store \cup update_args.v.profile_update.graph
    /\ update_response' = 200
    /\ update_pc' = "done"
    /\ UNCHANGED <<update_args, profiles_graph_cache, old_profile, new_profile_g>>
    /\ UNCHANGED notupd

\* lines 61-63: pyoxi_store.load raises, which nothing catches: the
\* framework answers 500
LoadProfileRaises ==
    /\ update_pc = "add"
    /\ new_profile_g = {}
    /\ update_response' = 500
    /\ update_pc' = "done"
    /\ UNCHANGED <<update_args, profiles_graph_cache, pyoxi_store, old_profile,
                   new_profile_g>>
    /\ UNCHANGED notupd

InitUpd ==
    /\ request = [params |-> [profile |-> <<>>, mediatype |-> <<>>],
                  headers |-> [accept_profile |-> <<>>, accept |-> <<>>],
                  classes |-> <<"Child", "Base">>,
                  listing |-> FALSE]
    /\ InitNegotiation
    /\ InitDispatch
    /\ InitObjects
    /\ InitGenerators
    /\ InitHeaders
    /\ InitFederation
    /\ InitSearchQuery
    /\ InitEmit
    /\ update_args \in {Some(r) : r \in UpdateRequests}
    /\ update_pc = "start"
    /\ profiles_graph_cache = update_args.v.before.cache
    /\ pyoxi_store = update_args.v.before.store
    /\ old_profile = {}
    /\ new_profile_g = {}
    /\ update_response = 0

NextUpd ==
    \/ ParseProfile
    \/ CbdOfProfile
    \/ RemoveFromCache
    \/ RemoveGraph
    \/ RemoveGraphRaises
    \/ AddToCache
    \/ LoadProfile
    \/ LoadProfileRaises

SpecUpd == InitUpd /\ [][NextUpd]_vars

\* the profile is present in a graph
ProfilePresent(graph) == graph \cap (OldTriples \cup BodyTriples) # {}

\* C25: update_profile is all-or-nothing: when it answers 400, 404 or 500 the
\* cache and the store hold what they held before the call; when it succeeds
\* both hold the triples of the new profile and none that only the old
\* profile had; and the cache and the store always agree on whether the
\* profile is present.
C25_AllOrNothing ==
    update_args.some =>
        LET before == update_args.v.before
            new == update_args.v.profile_update.graph
        IN  /\ update_response \in {400, 404, 500} =>
                  /\ profiles_graph_cache = before.cache
                  /\ pyoxi_store = before.store
            /\ update_response = 200 =>
                  /\ new \subseteq profiles_graph_cache
                  /\ pyoxi_store = new
                  /\ profiles_graph_cache \cap (before.store \ new) = {}
            /\ ProfilePresent(profiles_graph_cache) = ProfilePresent(pyoxi_store)

(***************************************************************************)
(* The variables of the emitted queries: those a query uses in a           *)
(* projection, a CONSTRUCT template, a FILTER, a BIND, a GROUP BY or an    *)
(* ORDER BY, and those a triple pattern, a VALUES, a BIND or a sub-select  *)
(* projection of it binds.                                                 *)
(***************************************************************************)
Range(seq) == {seq[i] : i \in 1..Len(seq)}

\* _compose_select_query, line 256: the SELECT clause, count(?mid) as ?distance
SelectProjection ==
    <<"profile", "title", "class", "distance", "req_profile", "def_profile",
      "format", "req_format", "def_format">>
\* line 278
SelectGroupBy ==
    <<"class", "profile", "req_profile", "def_profile", "format", "req_format",
      "def_format", "title">>

\* lines 256-279: what the SELECT, the BINDs, the GROUP BY and the ORDER BY use
SelectUsed(q) ==
    Range(SelectProjection) \cup {"mid"} \cup Range(SelectGroupBy) \cup Range(q.order_by)
    \cup {"shape", "class", "profile", "format"}

\* lines 258-277: what the WHERE clause binds, the two BINDs that are
\* written only for a requested profile and for requested media types among
\* them, and the ?distance of the SELECT clause
SelectBound(q) ==
    {"class", "mid", "base_class", "profile", "format", "title", "shape",
     "def_profile", "def_format", "distance"}
    \cup (IF q.requested_profile # "" THEN {"req_profile"} ELSE {})
    \cup (IF q.ifs # <<>> THEN {"req_format"} ELSE {})

\* generate_sequence_construct: the ?seq_o variables of the chains
SequenceVars(sequences) ==
    IF Truthy(sequences)
    THEN UNION {{"seq_o" \o ToString(i) : i \in 1..Len(chain)} : chain \in Range(sequences.v)}
    ELSE {}
\* generate_bnode_construct, generate_bnode_select: ?o{i} ?p{i+1} ?o{i+1}
BnodeVars(depth) ==
    UNION {{"o" \o ToString(i), "p" \o ToString(i + 1), "o" \o ToString(i + 1)} :
              i \in 1..(IF depth > 0 THEN depth ELSE 0)}

\* generate_item_construct, lines 55-59 and 62-68: the variables of the
\* CONSTRUCT template and of the FILTERs of the WHERE clause
ItemUsed(preds, depth) ==
    {"p", "o1"} \cup SequenceVars(preds.sequences)
    \cup (IF Truthy(preds.inverses) THEN {"s", "inbound_p"} ELSE {})
    \cup BnodeVars(depth)
\* lines 62-68: the variables of the triple patterns and VALUES of the WHERE
ItemBound(preds, depth) ==
    {"p", "o1"} \cup SequenceVars(preds.sequences)
    \cup (IF Truthy(preds.inverses) THEN {"s", "inbound_p"} ELSE {})
    \cup BnodeVars(depth)

\* create_construct_template, lines 136-162
SearchTemplate == {"hashID", "weight", "pred", "match", "focus_node"}
\* create_inner_select_clause, lines 253-260: the group variables and ?weight
InnerProjection(q) == Range(q.group_by) \cup {"weight"}
\* create_outer_select_clause, lines 197-205
OuterProjection(q) == InnerProjection(q) \cup {"hashID"}

\* the search query, scope by scope: a branch of the union, the inner
\* sub-select, the outer sub-select, the CONSTRUCT template
SearchScoped(q) ==
    /\ \A k \in 1..Len(q.union) :
          {"match"} \subseteq Range(q.union[k].triple) \cup {"w"}
    /\ Range(q.group_by) \cup {q.sum_of} \subseteq
          {"pred", "w"} \cup UNION {Range(q.union[k].triple) : k \in 1..Len(q.union)}
    /\ Range(q.hash_of) \cup {q.order_by.var} \subseteq InnerProjection(q)
    /\ SearchTemplate \subseteq OuterProjection(q)

\* C26: no emitted query (the available-combinations SELECT, the item
\* CONSTRUCT, the search CONSTRUCT) uses, in a projection, a CONSTRUCT
\* template, a FILTER, a BIND, a GROUP BY or an ORDER BY, a variable that no
\* triple pattern, VALUES, BIND or sub-select projection of it binds.
C26_NoUnboundVariable ==
    /\ query.some => SelectUsed(query.v) \subseteq SelectBound(query.v)
    /\ item_query.some =>
          ItemUsed(item_predicates.v, BnodeDepth(item_args.v.profile))
              \subseteq ItemBound(item_predicates.v, BnodeDepth(item_args.v.profile))
    /\ sq_query.some => SearchScoped(sq_query.v)

(***************************************************************************)
(* object_function (prez/services/objects.py), called again and again      *)
(* with one NodeShape.  A triple or pattern is held as its text.           *)
(***************************************************************************)
MaxCalls == 2   \* calls of object_function with one NodeShape

AltProfile == "altr-ext:alt-profile"
\* the media types with "anot+" in them
AnnotatedMediatypes == {"text/anot+turtle"}

\* the NodeShapes handed in: their tss_list, tssp_list and gpnt_list
NodeShapes ==
    {[focus_node |-> "?focus_node", tss_list |-> tss, tssp_list |-> tssp, gpnt_list |-> gpnt] :
        tss \in {<<>>, <<"?focus_node ?p ?o">>},
        tssp \in {<<"?focus_node ?p ?o">>, <<"?focus_node ?p ?o", "?o rdfs:label ?label">>},
        gpnt \in {<<>>, <<"FILTER(?p != rdf:type)">>}}

\* pmts.selected of the calls
SelectedPmts ==
    {[profile |-> p, mediatype |-> m] :
        p \in {AltProfile, "P1"}, m \in {"text/turtle"} \cup AnnotatedMediatypes}

\* TriplesSameSubject.from_spo(focus_node, prez:type, prez:FocusNode), lines 68-72
FocusNodeTriple(shape) ==
    shape.focus_node \o " <https://prez.dev/type> <https://prez.dev/FocusNode>"

\* lines 66-73: profile_nodeshape.tss_list.append(...) for an annotated media
\* type; the NodeShape after it
TssList(shape, sel) ==
    IF sel.mediatype \in AnnotatedMediatypes
    THEN [shape EXCEPT !.tss_list = Append(@, FocusNodeTriple(shape))]
    ELSE shape

\* PrezQueryConstructor(...).to_string(), lines 74-78
PrezQueryConstructor(profile_triples, profile_gpnt, construct_tss_list) ==
    [construct |-> construct_tss_list, where |-> profile_triples \o profile_gpnt]

\* lines 35-65: the alternate profile is answered by listing_function, and
\* object_function compiles no query
ObjectFunctionAlternates ==
    /\ profile_nodeshape.some
    /\ Len(object_calls) < MaxCalls
    /\ \E sel \in SelectedPmts :
          /\ sel.profile = AltProfile
          /\ object_calls' = Append(object_calls,
                 [selected |-> sel, compiled |-> FALSE,
                  query |-> PrezQueryConstructor(<<>>, <<>>, <<>>)])
    /\ UNCHANGED <<nodeshape_given, profile_nodeshape>>
    /\ UNCHANGED notobj

\* lines 66-95: the query of the object is compiled
ObjectFunction ==
    /\ profile_nodeshape.some
    /\ Len(object_calls) < MaxCalls
    /\ \E sel \in SelectedPmts :
          /\ sel.profile # AltProfile
          /\ LET shape == TssList(profile_nodeshape.v, sel)
             IN  /\ profile_nodeshape' = Some(shape)
                 /\ object_calls' = Append(object_calls,
                        [selected |-> sel, compiled |-> TRUE,
                         query |-> PrezQueryConstructor(shape.tssp_list, shape.gpnt_list,
                                                        shape.tss_list)])
    /\ UNCHANGED nodeshape_given
    /\ UNCHANGED notobj

InitObj ==
    /\ request = [params |-> [profile |-> <<>>, mediatype |-> <<>>],
                  headers |-> [accept_profile |-> <<>>, accept |-> <<>>],
                  classes |-> <<"Child", "Base">>,
                  listing |-> FALSE]
    /\ InitNegotiation
    /\ InitDispatch
    /\ InitGenerators
    /\ InitHeaders
    /\ InitFederation
    /\ InitSearchQuery
    /\ InitEmit
    /\ InitUpdate
    /\ nodeshape_given \in {Some(shape) : shape \in NodeShapes}
    /\ profile_nodeshape = nodeshape_given
    /\ object_calls = <<>>

NextObj ==
    \/ ObjectFunctionAlternates
    \/ ObjectFunction

SpecObj == InitObj /\ [][NextObj]_vars

\* C27: object_function leaves the NodeShape it is given (tss_list,
\* tssp_list, gpnt_list) as it was, for every selected media type, annotated
\* ones too, and calls with the same NodeShape and the same selection compile
\* the same query.
C27_NodeShapeUnchanged ==
    /\ profile_nodeshape = nodeshape_given
    /\ \A i, j \in 1..Len(object_calls) :
          (object_calls[i].selected = object_calls[j].selected)
              => object_calls[i].query = object_calls[j].query

(***************************************************************************)
(* The claim about the sequence paths of the item query.                   *)
(***************************************************************************)
\* generate_sequence_construct, lines 103-108: the triple patterns of one
\* chain, <object> <p1> ?seq_o1 . ?seq_o1 <p2> ?seq_o2 . and so on
ChainPatterns(object_uri, predicate_list) ==
    <<[s |-> Bracket(object_uri), p |-> Bracket(predicate_list[1]), o |-> Var("seq_o", 1)]>>
    \o [i \in 1..(Len(predicate_list) - 1) |->
           [s |-> Var("seq_o", i), p |-> Bracket(predicate_list[i + 1]),
            o |-> Var("seq_o", i + 1)]]

\* a triple pattern as it is written, ended by its dot
Written(pattern) == pattern.s \o " " \o pattern.p \o " " \o pattern.o \o " ."

\* the variables of a chain
ChainVariables(object_uri, predicate_list) ==
    {pattern.o : pattern \in Range(ChainPatterns(object_uri, predicate_list))}

\* C28: every declared sequence chain [p1..pn] is in the CONSTRUCT template
\* and in the WHERE clause of the item query as the triple patterns
\* resource -p1-> x1 ... -pn-> xn, each ended on its own, and the variables
\* of two different chains are disjoint, so that each chain is matched
\* independently of the others.
C28_ChainsIndependent ==
    (item_query.some /\ Truthy(item_predicates.v.sequences)) =>
        LET chains == item_predicates.v.sequences.v
            uri == item_args.v.item.uri
        IN  /\ \A k \in 1..Len(chains) :
                  \A pattern \in Range(ChainPatterns(uri, chains[k])) :
                      /\ Written(pattern) \in Range(item_query.v.construct)
                      /\ Written(pattern) \in Range(item_query.v.where)
            /\ \A j, k \in 1..Len(chains) :
                  j # k => ChainVariables(uri, chains[j]) \cap ChainVariables(uri, chains[k]) = {}

\* C29: for every non-empty list of requested media types, one with the same
\* (media type, weight) entry more than once too, the BIND of ?req_format is
\* well-formed: as many closing parentheses end the IF nest as there are IF(
\* openings, and there is one IF( for each distinct requested entry.
C29_BalancedIfNest ==
    (query.some /\ Truthy(requested_mediatypes)) =>
        /\ query.v.closing = Len(query.v.ifs)
        /\ Len(query.v.ifs) = Cardinality(Range(requested_mediatypes.v))

(***************************************************************************)
(* GET /object (prez/app.py, object): the dispatch on the object's types.  *)
(***************************************************************************)
MaxTypes == 2   \* types get_object answers with for one object

\* the classes the loop knows, with the module and the handler of each
\* (lines 360-384)
ModuleOf ==
    [t \in {"skos:ConceptScheme", "skos:Collection", "skos:Concept", "dcat:Dataset",
            "geo:FeatureCollection", "geo:Feature"} |->
        IF t \in {"skos:ConceptScheme", "skos:Collection", "skos:Concept"}
        THEN "VocPrez" ELSE "SpacePrez"]
HandlerOf(type) ==
    CASE type = "skos:ConceptScheme" -> "vocprez_router.scheme"
      [] type = "skos:Collection" -> "vocprez_router.collection"
      [] type = "skos:Concept" -> "vocprez_router.concept"
      [] type = "dcat:Dataset" -> "spaceprez_router.dataset"
      [] type = "geo:FeatureCollection" -> "spaceprez_router.feature_collection"
      [] type = "geo:Feature" -> "spaceprez_router.feature"

\* the types of an object in the repository: known classes and another one
ObjectTypes == {"skos:Concept", "skos:ConceptScheme", "dcat:Dataset", "geo:Feature", "ex:Other"}

DispatchRequests ==
    {[enabled_prezs |-> e, object_types |-> types] :
        e \in (SUBSET {"VocPrez", "SpacePrez"}) \ {{}},
        types \in ListsOf(ObjectTypes, MaxTypes)}

NotFound == Some([status |-> 404, handler |-> ""])
Routed(handler) == Some([status |-> 200, handler |-> handler])

\* lines 345-347: if len(sparql_response) == 0, 404; else the loop begins
GetObject ==
    /\ dispatch_args.some
    /\ dispatch_idx = 0
    /\ ~dispatch_response.some
    /\ IF Len(dispatch_args.v.object_types) = 0
       THEN /\ dispatch_response' = NotFound
            /\ UNCHANGED dispatch_idx
       ELSE /\ dispatch_idx' = 1
            /\ UNCHANGED dispatch_response
    /\ UNCHANGED dispatch_args
    /\ UNCHANGED notdisp

\* lines 359-384: one turn of for object_type in object_types, for a type the
\* loop knows: 404 if its module is not enabled, else the module's handler
DispatchKnownType ==
    /\ dispatch_idx \in 1..Len(dispatch_args.v.object_types)
    /\ ~dispatch_response.some
    /\ LET object_type == dispatch_args.v.object_types[dispatch_idx]
       IN  /\ object_type \in DOMAIN ModuleOf
           /\ dispatch_response' =
                 (IF ModuleOf[object_type] \notin dispatch_args.v.enabled_prezs
                  THEN NotFound
                  ELSE Routed(HandlerOf(object_type)))
    /\ UNCHANGED <<dispatch_args, dispatch_idx>>
    /\ UNCHANGED notdisp

\* a turn of the loop for a type none of its branches names
DispatchOtherType ==
    /\ dispatch_idx \in 1..Len(dispatch_args.v.object_types)
    /\ ~dispatch_response.some
    /\ dispatch_args.v.object_types[dispatch_idx] \notin DOMAIN ModuleOf
    /\ dispatch_idx' = dispatch_idx + 1
    /\ UNCHANGED <<dispatch_args, dispatch_response>>
    /\ UNCHANGED notdisp

\* line 386: the loop ended without a return
DispatchNotFound ==
    /\ dispatch_args.some
    /\ dispatch_idx > Len(dispatch_args.v.object_types)
    /\ ~dispatch_response.some
    /\ dispatch_response' = NotFound
    /\ UNCHANGED <<dispatch_args, dispatch_idx>>
    /\ UNCHANGED notdisp

InitDisp ==
    /\ request = [params |-> [profile |-> <<>>, mediatype |-> <<>>],
                  headers |-> [accept_profile |-> <<>>, accept |-> <<>>],
                  classes |-> <<"Child", "Base">>,
                  listing |-> FALSE]
    /\ InitNegotiation
    /\ InitGenerators
    /\ InitHeaders
    /\ InitFederation
    /\ InitSearchQuery
    /\ InitEmit
    /\ InitUpdate
    /\ InitObjects
    /\ dispatch_args \in {Some(r) : r \in DispatchRequests}
    /\ dispatch_idx = 0
    /\ dispatch_response = Nothing

NextDisp ==
    \/ GetObject
    \/ DispatchKnownType
    \/ DispatchOtherType
    \/ DispatchNotFound

SpecDisp == InitDisp /\ [][NextDisp]_vars

\* a type of the object is a class served by an enabled module
Served(type) ==
    type \in DOMAIN ModuleOf /\ ModuleOf[type] \in dispatch_args.v.enabled_prezs

\* C30: GET /object is routed to a module handler whenever one of the
\* object's types is a class served by an enabled module, in whatever order
\* the types come; it answers 404 only when the object has no type or none
\* of its types is served by an enabled module.
C30_DispatchByType ==
    dispatch_response.some =>
        ((dispatch_response.v.status = 200)
            <=> \E type \in Range(dispatch_args.v.object_types) : Served(type))

====
